---------------------------- MODULE Spec2Model ----------------------------
(***************************************************************************)
(* Verification model of NISP, the nextpnr FPGA-interchange site           *)
(* preprocessor: the DNF engine (src/src/logic_formula/mod.rs) and the     *)
(* port-to-port site router (src/src/router/site_brute_router.rs).         *)
(*                                                                         *)
(* Data representation                                                     *)
(*   FormulaTerm<Id>   a record [kind, id]; id is 0 for the constants      *)
(*   DNFCube<Id>       the sequence of its terms (the Vec `terms`)         *)
(*   DNFForm<Id>       the sequence of its cubes (the Vec `cubes`)         *)
(*   Option<T>         a sequence of length 0 (None) or 1 (Some)           *)
(***************************************************************************)
EXTENDS Integers, Sequences, FiniteSets, TLC

(***************************************************************************)
(* Bounds of the model.                                                    *)
(***************************************************************************)
\* Variable identifiers are 1..NumVars.
NumVars == 2
\* add_term is called on cubes of fewer than MaxTerms terms.
MaxTerms == 3

\* A formula holds at most MaxCubes cubes, the other formula MaxOtherCubes.
MaxCubes == 2
MaxOtherCubes == 1
\* The cubes handed to a formula are built by at most MaxCubeTerms add_term
\* calls; conjunct_term and conjunct_term_with grow them up to MaxTerms terms.
MaxCubeTerms == 2
\* The cubes of the other formula are built by at most MaxOtherTerms calls.
MaxOtherTerms == 1
\* optimize is called on formulas of at most MaxOptCubes cubes.
MaxOptCubes == 3
\* PortToPortRouter routes on graphs of NumPins nodes and at most MaxEdges
\* edges.
NumPins == 4
MaxEdges == 5
\* route_all_multithreaded is given graphs of NumBatchPins nodes and a thread
\* count of at most MaxThreads.
NumBatchPins == 3
MaxThreads == 4
\* split_range_nicely is given ranges that start at MaxRangeStart at most
\* and hold MaxRangeLen indices at most, to be cut in MaxSlices slices at
\* most.
MaxRangeStart == 2
MaxRangeLen == 5
MaxSlices == 4
\* BruteRouter::new is given site types of NumBels BELs and MaxSitePins BEL
\* pins at most, with MaxWires site wires and MaxPips site PIPs at most.
NumBels == 2
MaxSitePins == 3
MaxWires == 2
MaxPips == 2
\* The accumulator of a callback takes NumAccumulators values.
NumAccumulators == 2
\* The string pool is called by NumCallers threads, MaxCalls times each at
\* most, with NumStrings strings.
NumCallers == 3
MaxCalls == 2
NumStrings == 2

(***************************************************************************)
(* FormulaTerm                                                             *)
(***************************************************************************)
Var(v) == [kind |-> "Var", id |-> v]

NegVar(v) == [kind |-> "NegVar", id |-> v]

True == [kind |-> "True", id |-> 0]

False == [kind |-> "False", id |-> 0]

Ids == 1..NumVars

FormulaTerm == {Var(v) : v \in Ids} \cup {NegVar(v) : v \in Ids} \cup {True, False}

\* Option<T>
None == <<>>

Some(x) == <<x>>

\* FormulaTerm::neg_eq
neg_eq(self, other) ==
    CASE self.kind = "Var" /\ other.kind = "NegVar" -> self.id = other.id
      [] self.kind = "NegVar" /\ other.kind = "Var" -> self.id = other.id
      [] self.kind = "True" /\ other.kind = "False" -> TRUE
      [] self.kind = "False" /\ other.kind = "True" -> TRUE
      [] OTHER -> FALSE

\* impl PartialEq for FormulaTerm
term_eq(self, other) ==
    CASE self.kind = "Var" /\ other.kind = "Var" -> self.id = other.id
      [] self.kind = "NegVar" /\ other.kind = "NegVar" -> self.id = other.id
      [] self.kind = "False" /\ other.kind = "False" -> TRUE
      [] self.kind = "True" /\ other.kind = "True" -> TRUE
      [] OTHER -> FALSE

\* Ord::cmp of the identifiers
id_cmp(a, b) == IF a < b THEN "Less" ELSE IF a > b THEN "Greater" ELSE "Equal"

\* impl PartialOrd for FormulaTerm: the match arms in their order
partial_cmp(self, other) ==
    CASE self.kind = "False" /\ other.kind = "False" -> "Equal"
      [] self.kind = "False" /\ other.kind # "False" -> "Less"
      [] self.kind # "False" /\ other.kind = "False" -> "Greater"
      [] self.kind = "True" /\ other.kind = "True" -> "Equal"
      [] self.kind = "True" /\ other.kind \notin {"False", "True"} -> "Equal"
      [] self.kind \notin {"False", "True"} /\ other.kind = "True" -> "Less"
      [] OTHER ->
            IF id_cmp(self.id, other.id) = "Equal"
            THEN (IF self.kind = "Var" /\ other.kind = "NegVar" THEN "Less"
                  ELSE IF self.kind = "NegVar" /\ other.kind = "Var" THEN "Greater"
                  ELSE "Equal")
            ELSE id_cmp(self.id, other.id)

\* the operator < on terms, derived from partial_cmp
term_lt(a, b) == partial_cmp(a, b) = "Less"

(***************************************************************************)
(* DNFCube                                                                 *)
(***************************************************************************)
\* DNFCube::new
DNFCube_new == <<>>

\* Vec::insert
VecInsert(v, idx, x) == SubSeq(v, 1, idx) \o <<x>> \o SubSeq(v, idx + 1, Len(v))

\* Vec::remove / the result vector of Vec::remove(idx), idx counted from 0
VecRemove(v, idx) == SubSeq(v, 1, idx) \o SubSeq(v, idx + 2, Len(v))

\* Vec::contains
VecContains(v, x) == \E i \in 1..Len(v) : v[i] = x

\* DNFCube::is_true_const
is_true_const(self) == ~(\E i \in 1..Len(self) : self[i].kind # "True")

\* DNFCube::is_false_const
is_false_const(self) == \E i \in 1..Len(self) : term_eq(self[i], False)

\* DNFCube::add_term, the scan loop from my_term_idx (0-based); the result
\* is the cube after the call.
RECURSIVE add_term_loop(_, _, _)
add_term_loop(terms, term, my_term_idx) ==
    IF my_term_idx = Len(terms) THEN VecInsert(terms, my_term_idx, term)
    ELSE LET my_term == terms[my_term_idx + 1] IN
         IF term_lt(term, my_term) THEN VecInsert(terms, my_term_idx, term)
         ELSE IF term_eq(term, my_term) THEN terms
         ELSE IF neg_eq(term, my_term) THEN <<False>>
         ELSE add_term_loop(terms, term, my_term_idx + 1)

\* add_term that pushes a new term at the end, wherever it sorts
add_term_push(self, term) ==
    IF \E i \in 1..Len(self) : self[i] = term THEN self ELSE Append(self, term)

add_term(self, term) == add_term_loop(self, term, 0)

\* is_subcube that answers false for cubes of different lengths
is_subcube_same_len(self, other) ==
    IF Len(other) # Len(self) THEN FALSE
    ELSE ~(\E i \in 1..Len(other) : term_lt(other[i], self[i]))

\* DNFCube::is_subcube
is_subcube(self, other) ==
    IF Len(other) > Len(self) THEN FALSE
    ELSE ~(\E i \in 1..Len(other) : term_lt(other[i], self[i]))

(***************************************************************************)
(* ReductibleDNFCube::try_to_reduce_disjunction                            *)
(***************************************************************************)
\* slice::Iter::next on a term vector: the iterator is the count of the
\* terms already yielded.
it_yield(terms, it) == IF it < Len(terms) THEN Some(terms[it + 1]) ELSE None

it_advance(terms, it) == IF it < Len(terms) THEN it + 1 ELSE it

\* The kind of a yielded term, "None" when the iterator was exhausted.
yield_kind(y) == IF y = None THEN "None" ELSE y[1].kind

IsVarKind(k) == k \in {"Var", "NegVar"}

\* The outcome of one `match (my_yield, others_yield)`: either the loop is
\* left (ret: the value returned at once, brk: the value of `reductible`),
\* or both terms get a TermReductionAction and the strictness flags change.
\* The arms are tried in the order of the source.
fsm_match(self, other, my_yield, others_yield, lsm, lso) ==
    LET mk == yield_kind(my_yield)
        ok == yield_kind(others_yield)
        go(me, oth, m, o) == [t |-> "go", take_me |-> me, take_other |-> oth,
                              less_strict_than_me |-> m, less_strict_than_other |-> o]
        brk(b) == [t |-> "break", reductible |-> b]
    IN
    CASE mk = "False" -> [t |-> "return", value |-> Some(other)]
      [] mk # "False" /\ ok = "False" -> [t |-> "return", value |-> Some(self)]
      [] mk = "True" /\ ok = "True" -> go("Skip", "Move", lsm, lso)
      [] IsVarKind(mk) /\ mk = ok ->
            (LET c == id_cmp(my_yield[1].id, others_yield[1].id) IN
             IF c = "Equal" THEN go("Move", "Skip", lsm, lso)
             ELSE IF c = "Less"
                  THEN (IF ~lso THEN go("Skip", "Ignore", TRUE, lso) ELSE brk(FALSE))
                  ELSE (IF ~lsm THEN go("Ignore", "Skip", lsm, TRUE) ELSE brk(FALSE)))
      [] IsVarKind(mk) /\ IsVarKind(ok) /\ mk # ok ->
            (LET d == id_cmp(my_yield[1].id, others_yield[1].id) IN
             IF lsm \/ lso THEN brk(FALSE)
             ELSE IF d = "Equal" THEN go("Skip", "Skip", TRUE, TRUE)
             ELSE IF d = "Less" THEN go("Skip", "Ignore", TRUE, lso)
             ELSE go("Ignore", "Skip", lsm, TRUE))
      [] mk = "None" /\ ok = "None" -> brk(TRUE)
      [] OTHER -> brk((~lsm) \/ lso)

\* The `'fsm: loop`. my_it and others_it are the two iterators, reduced is
\* the cube under construction. A Move of the right-hand term refills
\* others_yield from my_it, as the source does.
RECURSIVE fsm(_, _, _, _, _, _, _, _, _)
fsm(self, other, my_it, others_it, my_yield, others_yield, reduced, lsm, lso) ==
    LET m == fsm_match(self, other, my_yield, others_yield, lsm, lso) IN
    IF m.t = "return" THEN m.value
    ELSE IF m.t = "break" THEN (IF m.reductible THEN Some(reduced) ELSE None)
    ELSE
      LET red1 == IF m.take_me = "Move" THEN reduced \o my_yield ELSE reduced
          my_yield1 == IF m.take_me = "Ignore" THEN my_yield ELSE it_yield(self, my_it)
          my_it1 == IF m.take_me = "Ignore" THEN my_it ELSE it_advance(self, my_it)
          red2 == IF m.take_other = "Move" THEN red1 \o others_yield ELSE red1
          others_yield2 ==
              IF m.take_other = "Move" THEN it_yield(self, my_it1)
              ELSE IF m.take_other = "Skip" THEN it_yield(other, others_it)
              ELSE others_yield
          my_it2 == IF m.take_other = "Move" THEN it_advance(self, my_it1) ELSE my_it1
          others_it2 == IF m.take_other = "Skip" THEN it_advance(other, others_it)
                        ELSE others_it
      IN fsm(self, other, my_it2, others_it2, my_yield1, others_yield2, red2,
             m.less_strict_than_me, m.less_strict_than_other)

\* A reduction that knows absorption only: it answers the cube whose terms
\* the other cube holds all, and does not merge complementary literals.
try_to_reduce_absorb_only(self, other) ==
    IF \A i \in 1..Len(self) : \E j \in 1..Len(other) : other[j] = self[i]
    THEN Some(self)
    ELSE IF \A j \in 1..Len(other) : \E i \in 1..Len(self) : self[i] = other[j]
    THEN Some(other)
    ELSE None

\* A reduction that knows merging only: it drops the one position where two
\* cubes of a length differ, and answers nothing for cubes of two lengths.
try_to_reduce_merge_only(self, other) ==
    IF Len(self) = Len(other)
       /\ Cardinality({i \in 1..Len(self) : self[i] # other[i]}) <= 1
    THEN Some(SelectSeq(self, LAMBDA t : \E i \in 1..Len(other) : other[i] = t))
    ELSE None

\* try_to_reduce_disjunction(&self, other) -> Option<Self>
try_to_reduce_disjunction(self, other) ==
    fsm(self, other, it_advance(self, 0), it_advance(other, 0),
        it_yield(self, 0), it_yield(other, 0), DNFCube_new, FALSE, FALSE)

(***************************************************************************)
(* DNFForm and MergableDNFForm                                             *)
(***************************************************************************)
\* DNFForm::new
DNFForm_new == <<>>

\* DNFForm::is_subformula_of
is_subformula_of(self, other) ==
    \A i \in 1..Len(self) : \E j \in 1..Len(other) : is_subcube(self[i], other[j])

\* DNFForm::num_cubes
num_cubes(self) == Len(self)

\* impl PartialEq for DNFForm
form_eq(self, other) ==
    /\ is_subformula_of(self, other)
    /\ (Len(self) = Len(other) \/ is_subformula_of(other, self))

\* add_cube
add_cube(self, c) == Append(self, c)

\* add_cube_opt: the `'outer` loop with its `'inner` scan at position idx.
\* st = [cubes, reduced]; the result is the state when `'outer` is left.
RECURSIVE add_cube_opt_scan(_, _, _, _)
add_cube_opt_scan(cubes, c, idx, reduced) ==
    IF idx = Len(cubes) THEN [cubes |-> cubes, reduced |-> reduced]
    ELSE LET my_cube == cubes[idx + 1]
             r == try_to_reduce_disjunction(my_cube, c)
         IN IF r = None THEN [cubes |-> cubes, reduced |-> reduced]
            ELSE IF is_false_const(r[1])
                 THEN add_cube_opt_scan(VecRemove(cubes, idx), c, 0, TRUE)
            ELSE IF my_cube # r[1]
                 THEN add_cube_opt_scan([cubes EXCEPT ![idx + 1] = r[1]], c, 0, TRUE)
            ELSE add_cube_opt_scan(cubes, c, idx + 1, TRUE)

add_cube_opt(self, c) ==
    LET st == add_cube_opt_scan(self, c, 0, FALSE)
    IN IF ~st.reduced THEN Append(st.cubes, c) ELSE st.cubes

\* disjunct_opt: fold of add_cube_opt over the other formula's cubes
RECURSIVE disjunct_opt(_, _)
disjunct_opt(self, other) ==
    IF other = <<>> THEN self
    ELSE disjunct_opt(add_cube_opt(self, Head(other)), Tail(other))

\* disjunct: fold of add_cube over the other formula's cubes
RECURSIVE disjunct(_, _)
disjunct(self, other) ==
    IF other = <<>> THEN self
    ELSE disjunct(add_cube(self, Head(other)), Tail(other))

\* conjunct_term
conjunct_term(self, term) == [i \in 1..Len(self) |-> add_term(self[i], term)]

\* conjunct_term_with: `at` counts from 0. The result carries the panic of
\* the else branch.
conjunct_term_with(self, at, term) ==
    IF at < Len(self)
    THEN [panic |-> FALSE, form |-> [self EXCEPT ![at + 1] = add_term(@, term)]]
    ELSE [panic |-> TRUE, form |-> self]

\* find_reduction with `'outer` left after its first reduction: the search
\* finds nothing once a reduction has been applied (facts is not empty).
find_reduction_once(cubes, facts) ==
    LET Hits == {p \in (1..Len(cubes)) \X (1..Len(cubes)) :
                    LET r == try_to_reduce_disjunction(cubes[p[2]], cubes[p[1]])
                    IN r # None /\ r[1] # cubes[p[2]]}
    IN IF facts # <<>> \/ Hits = {} THEN None
       ELSE LET p == CHOOSE q \in Hits :
                        \A o \in Hits : q[1] < o[1] \/ (q[1] = o[1] /\ q[2] <= o[2])
            IN Some([new_cube |-> try_to_reduce_disjunction(cubes[p[2]], cubes[p[1]])[1],
                     at |-> p[2] - 1, of |-> p[1] - 1])

\* optimize, the search of one pass of `'outer`: the first pair (fact, cube),
\* facts outermost over self.cubes chained with facts.cubes, whose reduction
\* differs from the cube. None, or Some of [new_cube, at, of] (0-based).
find_reduction(cubes, facts) ==
    LET chain == cubes \o facts
        Hits == {p \in (1..Len(chain)) \X (1..Len(cubes)) :
                    LET r == try_to_reduce_disjunction(cubes[p[2]], chain[p[1]])
                    IN r # None /\ r[1] # cubes[p[2]]}
    IN IF Hits = {} THEN None
       ELSE LET p == CHOOSE q \in Hits :
                        \A o \in Hits : q[1] < o[1] \/ (q[1] = o[1] /\ q[2] <= o[2])
            IN Some([new_cube |-> try_to_reduce_disjunction(cubes[p[2]], chain[p[1]])[1],
                     at |-> p[2] - 1, of |-> p[1] - 1])

\* Vec::swap_remove: the vector after the call (the last element takes the
\* place of the removed one).
VecSwapRemove(v, idx) ==
    IF idx = Len(v) - 1 THEN SubSeq(v, 1, Len(v) - 1)
    ELSE [SubSeq(v, 1, Len(v) - 1) EXCEPT ![idx + 1] = v[Len(v)]]

\* optimize, the body of `if let Some((new_cube, at, of)) = reduction`.
\* panic: an index of the body (the debug block's included) is out of range.
optimize_apply(cubes, facts, red) ==
    LET debug_ok == /\ red.at < Len(cubes)
                    /\ (red.of < Len(cubes) \/ red.of - Len(cubes) < Len(facts))
        facts1 == Append(facts, red.new_cube)
        cubes1 == Append(cubes, red.new_cube)
        old_cube == cubes1[red.at + 1]
        cubes2 == VecSwapRemove(cubes1, red.at)
        facts2 == Append(facts1, old_cube)
        cubes3 == IF red.of < Len(cubes2) THEN VecRemove(cubes2, red.of) ELSE cubes2
    IN [panic |-> ~debug_ok, cubes |-> cubes3, facts |-> facts2]

\* The distinct facts in the order of their first occurrence. find_reduction
\* takes the first hit in chain order, so a later copy of a fact is never the
\* one found: the pass depends on the facts through this list only.
RECURSIVE distinct_facts(_, _)
distinct_facts(facts, acc) ==
    IF facts = <<>> THEN acc
    ELSE distinct_facts(Tail(facts),
                        IF VecContains(acc, Head(facts)) THEN acc
                        ELSE Append(acc, Head(facts)))

\* optimize: the `'outer` loop run to its end. Some(cubes) when the call
\* returns, None when it never does: a pass entered in a configuration of
\* `visited` repeats the passes made since, for ever.
RECURSIVE optimize_loop(_, _, _)
optimize_loop(cubes, facts, visited) ==
    LET reduction == find_reduction(cubes, facts)
        config == <<cubes, distinct_facts(facts, <<>>)>>
    IN IF reduction = None THEN Some(cubes)
       ELSE IF config \in visited THEN None
       ELSE LET st == optimize_apply(cubes, facts, reduction[1])
            IN optimize_loop(st.cubes, st.facts, visited \cup {config})

optimize(self) == optimize_loop(self, <<>>, {})

(***************************************************************************)
(* RoutingGraph: the record [nodes, edges]. A node is its index, counted   *)
(* from 0, and `nodes` gives its kind and dir; `edges` is the matrix of    *)
(* booleans, read here by the pair <<from, to>> instead of the index       *)
(* from * nodes.len() + to.                                                *)
(***************************************************************************)
PinDir == {"Input", "Output", "Inout"}

\* enum RoutingGraphNodeKind: the variants, and a value of each variant with
\* the BEL index it carries
RoutingGraphNodeKind == {"BelPort", "RoutingBelPort", "SitePort", "FreePort"}

BelPort(bel_idx) == <<"BelPort", bel_idx>>

RoutingBelPort(bel_idx) == <<"RoutingBelPort", bel_idx>>

SitePort(bel_idx) == <<"SitePort", bel_idx>>

FreePort == <<"FreePort">>

\* impl Default for RoutingGraphNode
RoutingGraphNode_default == [kind |-> FreePort, dir |-> "Inout"]

\* RoutingGraph::new
RoutingGraph_new(pin_count) ==
    [nodes |-> [n \in 0..(pin_count - 1) |-> RoutingGraphNode_default],
     edges |-> [e \in (0..(pin_count - 1)) \X (0..(pin_count - 1)) |-> FALSE]]

\* RoutingGraph::node_count
node_count(g) == Cardinality(DOMAIN g.nodes)

\* The node indices: 0 .. nodes.len()
NodesOf(g) == DOMAIN g.nodes

\* The node indices in ascending order, as the iterators enumerate them.
NodeSeq(g) == [i \in 1..node_count(g) |-> i - 1]

\* RoutingGraph::connect: the graph after the call
connect(g, a, b) == [g EXCEPT !.edges[<<a, b>>] = TRUE]

\* RoutingGraph::edges_from skipping one element too many: the edge to node 0
\* is never yielded.
edges_from_skip(g, a) == SelectSeq(NodeSeq(g), LAMBDA b : b # 0 /\ g.edges[<<a, b>>])

\* RoutingGraph::edges_from
edges_from(g, a) == SelectSeq(NodeSeq(g), LAMBDA b : g.edges[<<a, b>>])

\* RoutingGraph::edges_to
edges_to(g, b) == SelectSeq(NodeSeq(g), LAMBDA a : g.edges[<<a, b>>])

(***************************************************************************)
(* PortToPortRouter. `self` is the record [from, markers, queue, callback, *)
(* optimize_implies]; the graph it borrows is passed next to it. A frame   *)
(* is the record [prev_node, node, accumulator]. A callback is a closure   *)
(* of the caller: what is known of it is that it is there, and it may      *)
(* answer any accumulator. ConstrainingElement::Port(n) is the identifier  *)
(* n of a term.                                                            *)
(***************************************************************************)
\* The values of the accumulator type A, and A::default()
Accumulators == 0..(NumAccumulators - 1)

A_default == 0

\* Option<BruteRouterCallback<A>>
Callbacks == {None, Some("callback")}

PTPRMarker_new == [constraints |-> DNFForm_new, activated |-> DNFForm_new]

\* PortToPortRouter::new
PortToPortRouter_new(g, a, callback, opt) ==
    [from |-> a, markers |-> [n \in NodesOf(g) |-> PTPRMarker_new], queue |-> <<>>,
     callback |-> callback, optimize_implies |-> opt]

\* is_constr_subformular
is_constr_subformular(self, a, b) ==
    IF a # None
    THEN is_subformula_of(self.markers[a[1]].constraints, self.markers[b].constraints)
    ELSE TRUE

\* is_activators_subformular
is_activators_subformular(self, a, b) ==
    IF a # None
    THEN is_subformula_of(self.markers[a[1]].activated, self.markers[b].activated)
    ELSE TRUE

\* scan_constraint_requirements without `driver != prev.0`
scan_every_driver(g, node, prev_node) ==
    IF prev_node = None THEN <<>>
    ELSE LET drivers == edges_to(g, node)
         IN [i \in 1..Len(drivers) |-> NegVar(drivers[i])]

\* scan_constraint_requirements: the terms in the order they are yielded
scan_constraint_requirements(g, node, prev_node) ==
    IF prev_node = None THEN <<>>
    ELSE LET drivers == SelectSeq(edges_to(g, node), LAMBDA driver : driver # prev_node[1])
         IN [i \in 1..Len(drivers) |-> NegVar(drivers[i])]

\* scan_constraint_activators
scan_constraint_activators(g, node, prev_node) ==
    IF prev_node = None THEN <<>>
    ELSE LET pnodes == SelectSeq(edges_to(g, node), LAMBDA pnode : pnode = prev_node[1])
         IN [i \in 1..Len(pnodes) |-> Var(prev_node[1])]

\* terms.fold(form, |r, c| r.conjunct_term(&c))
RECURSIVE fold_conjunct_term(_, _)
fold_conjunct_term(r, terms) ==
    IF terms = <<>> THEN r
    ELSE fold_conjunct_term(conjunct_term(r, Head(terms)), Tail(terms))

\* The loop over edges_from(frame.node) of a router that queues no frame
\* when the accumulator is not A::default()
RECURSIVE push_frames_steered(_, _, _, _)
push_frames_steered(self, node, nexts, new_acc) ==
    IF nexts = <<>> \/ new_acc # A_default THEN self
    ELSE LET next == Head(nexts)
             is_subformular == is_constr_subformular(self, Some(node), next)
             queued == IF ~is_subformular
                       THEN [self EXCEPT !.queue =
                                Append(@, [prev_node |-> Some(node), node |-> next,
                                           accumulator |-> new_acc])]
                       ELSE self
         IN push_frames_steered(queued, node, Tail(nexts), new_acc)

\* routing_step, the frames queued by the loop over edges_from(frame.node)
RECURSIVE push_frames(_, _, _, _)
push_frames(self, node, nexts, new_acc) ==
    IF nexts = <<>> THEN self
    ELSE LET next == Head(nexts)
             is_subformular == is_constr_subformular(self, Some(node), next)
             queued == IF ~is_subformular
                       THEN [self EXCEPT !.queue =
                                Append(@, [prev_node |-> Some(node), node |-> next,
                                           accumulator |-> new_acc])]
                       ELSE self
         IN push_frames(queued, node, Tail(nexts), new_acc)

\* routing_step, `new_acc` of the callback: any accumulator from a callback,
\* frame.accumulator without one
callback_answers(self, frame) ==
    IF self.callback # None THEN Accumulators ELSE {frame.accumulator}

\* routing_step that tests the activated whatever optimize_implies is
routing_step_uncoupled(g, self, new_acc) ==
    LET frame == Head(self.queue)
        popped == [self EXCEPT !.queue = Tail(@)]
        new_requirements ==
            fold_conjunct_term(
                IF frame.prev_node # None
                THEN self.markers[frame.prev_node[1]].constraints
                ELSE add_cube(DNFForm_new, DNFCube_new),
                scan_constraint_requirements(g, frame.node, frame.prev_node))
        needs_alternative == ~is_constr_subformular(popped, frame.prev_node, frame.node)
        with_constraints ==
            [popped EXCEPT !.markers[frame.node].constraints =
                IF needs_alternative THEN disjunct(@, new_requirements)
                ELSE new_requirements]
        new_activators ==
            fold_conjunct_term(
                IF frame.prev_node # None
                THEN with_constraints.markers[frame.prev_node[1]].activated
                ELSE add_cube(DNFForm_new, DNFCube_new),
                scan_constraint_activators(g, frame.node, frame.prev_node))
        needs_alternative_act ==
            ~is_activators_subformular(with_constraints, frame.prev_node, frame.node)
        with_activated ==
            [with_constraints EXCEPT !.markers[frame.node].activated =
                IF needs_alternative_act THEN disjunct(@, new_activators)
                ELSE new_activators]
    IN push_frames(with_activated, frame.node, edges_from(g, frame.node), new_acc)

\* routing_step on a queue that is not empty, with the accumulator that the
\* callback has answered: the router after the step
routing_step_acc(g, self, new_acc) ==
    LET frame == Head(self.queue)
        popped == [self EXCEPT !.queue = Tail(@)]
        new_requirements ==
            fold_conjunct_term(
                IF frame.prev_node # None
                THEN self.markers[frame.prev_node[1]].constraints
                ELSE add_cube(DNFForm_new, DNFCube_new),
                scan_constraint_requirements(g, frame.node, frame.prev_node))
        needs_alternative == ~is_constr_subformular(popped, frame.prev_node, frame.node)
        with_constraints ==
            [popped EXCEPT !.markers[frame.node].constraints =
                IF needs_alternative THEN disjunct(@, new_requirements)
                ELSE new_requirements]
        new_activators ==
            fold_conjunct_term(
                IF frame.prev_node # None
                THEN with_constraints.markers[frame.prev_node[1]].activated
                ELSE add_cube(DNFForm_new, DNFCube_new),
                scan_constraint_activators(g, frame.node, frame.prev_node))
        needs_alternative_act ==
            IF self.optimize_implies
            THEN ~is_activators_subformular(with_constraints, frame.prev_node, frame.node)
            ELSE needs_alternative
        with_activated ==
            [with_constraints EXCEPT !.markers[frame.node].activated =
                IF needs_alternative_act THEN disjunct(@, new_activators)
                ELSE new_activators]
    IN push_frames(with_activated, frame.node, edges_from(g, frame.node), new_acc)

\* routing_step of a router without a callback
routing_step(g, self) == routing_step_acc(g, self, Head(self.queue).accumulator)

\* init_constraints_and_activators
init_constraints_and_activators(self, node) ==
    [self EXCEPT !.markers[node] =
        [constraints |-> add_cube(DNFForm_new, DNFCube_new),
         activated |-> add_cube(DNFForm_new, DNFCube_new)]]

\* route_all up to its loop: the source is marked and its frame is queued
route_all_begin(self) ==
    [init_constraints_and_activators(self, self.from) EXCEPT !.queue =
        <<[prev_node |-> None, node |-> self.from, accumulator |-> A_default]>>]

\* What the steps to come depend on: the (prev_node, node) of the frames of
\* the queue and, for every node, the set of the cubes of its constraints
\* (is_subformula_of, conjunct_term and disjunct read and write the list of
\* cubes cube by cube; `activated` is written only, and an accumulator is
\* handed to the callback only).
SeqRange(v) == {v[i] : i \in 1..Len(v)}

router_config(self) ==
    <<[i \in 1..Len(self.queue) |->
          [prev_node |-> self.queue[i].prev_node, node |-> self.queue[i].node]],
      [n \in DOMAIN self.markers |-> SeqRange(self.markers[n].constraints)]>>

\* route_all from its loop on. Some(markers) when route_all returns, None
\* when it never does: a step entered in a configuration of `visited`
\* repeats the steps made since, for ever.
RECURSIVE route_all_loop(_, _, _)
route_all_loop(g, self, visited) ==
    IF self.queue = <<>> THEN Some(self.markers)
    ELSE IF router_config(self) \in visited THEN None
    ELSE CHOOSE r \in {route_all_loop(g, stepped, entered) :
                          stepped \in {routing_step(g, self)},
                          entered \in {visited \cup {router_config(self)}}} : TRUE

\* PortToPortRouter::route_all
route_all(g, self) == route_all_loop(g, route_all_begin(self), {})

(***************************************************************************)
(* BruteRouter::new. A BEL is a record of its category and of the          *)
(* directions of its pins; a BEL pin is <<bel_idx, pin_idx>>, the indices  *)
(* that the lookups by name of the code resolve to. A site wire is the set *)
(* of its BEL pins, a site PIP the record of its inpin and its outpin. An  *)
(* operation that can panic answers Some(graph), or None when it panics.   *)
(***************************************************************************)
BELCategory == {"LogicOrRouting", "SitePort"}

\* tile_belpin_idx_to_bel_pin: the BEL pins in the order new() numbers them
RECURSIVE tile_belpin_idx_to_bel_pin(_, _)
tile_belpin_idx_to_bel_pin(bels, bel_idx) ==
    IF bel_idx = Len(bels) THEN <<>>
    ELSE [pin_idx \in 1..Len(bels[bel_idx + 1].pins) |-> <<bel_idx, pin_idx - 1>>]
         \o tile_belpin_idx_to_bel_pin(bels, bel_idx + 1)

\* tile_belpin_idx[&(bel_idx, pin_idx)]
tile_belpin_idx(bels, bel_pin) ==
    LET all == tile_belpin_idx_to_bel_pin(bels, 0)
    IN (CHOOSE i \in 1..Len(all) : all[i] = bel_pin) - 1

\* The pins of the BELs as <<bel_idx, pin_idx>>
BelPinsOf(bels) ==
    LET all == tile_belpin_idx_to_bel_pin(bels, 0) IN {all[i] : i \in 1..Len(all)}

\* init_bels_in_graph
init_bels_in_graph(g, bels) ==
    LET all == tile_belpin_idx_to_bel_pin(bels, 0) IN
    [g EXCEPT !.nodes =
        [pin_idx \in DOMAIN g.nodes |->
            LET bel_idx == all[pin_idx + 1][1]
                bel == bels[bel_idx + 1]
            IN [dir |-> bel.pins[all[pin_idx + 1][2] + 1],
                kind |-> IF bel.category = "LogicOrRouting" THEN BelPort(bel_idx)
                         ELSE SitePort(bel_idx)]]]

\* The loop body without `if driver != *sink`
init_site_wire_with_loops(g, bels, wire) ==
    LET dir(bp) == bels[bp[1] + 1].pins[bp[2] + 1]
        drivers == {tile_belpin_idx(bels, bp) :
                       bp \in {q \in wire : dir(q) \in {"Output", "Inout"}}}
        sinks == {tile_belpin_idx(bels, bp) :
                     bp \in {q \in wire : dir(q) \in {"Input", "Inout"}}}
    IN [g EXCEPT !.edges =
           [e \in DOMAIN g.edges |->
               g.edges[e] \/ (e[1] \in drivers /\ e[2] \in sinks)]]

\* init_site_wires_in_graph, the body of its loop for one wire
init_site_wire_in_graph(g, bels, wire) ==
    LET dir(bp) == bels[bp[1] + 1].pins[bp[2] + 1]
        drivers == {tile_belpin_idx(bels, bp) :
                       bp \in {q \in wire : dir(q) \in {"Output", "Inout"}}}
        sinks == {tile_belpin_idx(bels, bp) :
                     bp \in {q \in wire : dir(q) \in {"Input", "Inout"}}}
    IN [g EXCEPT !.edges =
           [e \in DOMAIN g.edges |->
               g.edges[e] \/ (e[1] \in drivers /\ e[2] \in sinks /\ e[1] # e[2])]]

\* The match with a SitePort arm that leaves the node as it is
upgrade_to_routing_bel_lenient(g, pin, bel_idx) ==
    LET kind == g.nodes[pin].kind IN
    IF kind[1] = "BelPort"
    THEN Some([g EXCEPT !.nodes[pin].kind = RoutingBelPort(bel_idx)])
    ELSE IF kind[1] = "RoutingBelPort"
    THEN (IF kind[2] = bel_idx THEN Some(g) ELSE None)
    ELSE IF kind[1] = "SitePort" THEN Some(g)
    ELSE None

\* init_pseudopips_in_graph, one `match graph.get_node_mut(pin).kind`
upgrade_to_routing_bel(g, pin, bel_idx) ==
    LET kind == g.nodes[pin].kind IN
    IF kind[1] = "BelPort"
    THEN Some([g EXCEPT !.nodes[pin].kind = RoutingBelPort(bel_idx)])
    ELSE IF kind[1] = "RoutingBelPort"
    THEN (IF kind[2] = bel_idx THEN Some(g) ELSE None)
    ELSE None

\* init_pseudopips_in_graph, the body of its loop for one site PIP
init_pseudopip_in_graph(g, bels, spip) ==
    IF spip.inpin[1] # spip.outpin[1] THEN None
    ELSE LET bel_idx == spip.inpin[1]
             tile_in_pin_idx == tile_belpin_idx(bels, spip.inpin)
             tile_out_pin_idx == tile_belpin_idx(bels, spip.outpin)
             with_in == upgrade_to_routing_bel(g, tile_in_pin_idx, bel_idx)
         IN IF with_in = None THEN None
            ELSE LET with_out ==
                         upgrade_to_routing_bel(with_in[1], tile_out_pin_idx, bel_idx)
                 IN IF with_out = None THEN None
                    ELSE Some(connect(with_out[1], tile_in_pin_idx, tile_out_pin_idx))

\* init_site_wires_in_graph over the site wires sw_list
RECURSIVE init_site_wires_in_graph(_, _, _)
init_site_wires_in_graph(g, bels, sw_list) ==
    IF sw_list = {} THEN g
    ELSE LET wire == CHOOSE w \in sw_list : TRUE
         IN init_site_wires_in_graph(
                init_site_wire_in_graph(g, bels, wire), bels, sw_list \ {wire})

\* init_pseudopips_in_graph over the site PIPs: Some(graph), or None when a
\* site PIP makes it panic
RECURSIVE init_pseudopips_in_graph(_, _, _)
init_pseudopips_in_graph(g, bels, site_pips) ==
    IF site_pips = {} THEN Some(g)
    ELSE LET spip == CHOOSE p \in site_pips : TRUE
             connected == init_pseudopip_in_graph(g, bels, spip)
         IN IF connected = None THEN None
            ELSE init_pseudopips_in_graph(connected[1], bels, site_pips \ {spip})

\* create_routing_graph without virtual constants
create_routing_graph(bels, sw_list, site_pips) ==
    init_pseudopips_in_graph(
        init_site_wires_in_graph(
            init_bels_in_graph(
                RoutingGraph_new(Len(tile_belpin_idx_to_bel_pin(bels, 0))), bels),
            bels, sw_list),
        bels, site_pips)

(***************************************************************************)
(* BruteRouter. A HashMap is a function on its keys. An operation that     *)
(* runs the router answers Some(result), or None when a call in it never   *)
(* returns. The result of a call that is read more than once is bound by   *)
(* `x \in {call}`, as the `let` of the code binds it.                      *)
(***************************************************************************)
\* slice::sort_by_key with the key cube.len(): a stable sort, the cubes of
\* every length in the order they had.
RECURSIVE sort_by_len(_, _)
sort_by_len(v, len) ==
    IF \A i \in 1..Len(v) : Len(v[i]) < len THEN <<>>
    ELSE SelectSeq(v, LAMBDA c : Len(c) = len) \o sort_by_len(v, len + 1)

\* impl From<PTPRMarker> for PinPairRoutingInfo, default_sort included
PinPairRoutingInfo_from(marker) ==
    [requires |-> sort_by_len(marker.constraints, 0),
     implies |-> sort_by_len(marker.activated, 0)]

\* route_pins: the routing infos, one per node
route_pins(g, a, opt) ==
    CHOOSE r \in
        {IF ms = None THEN None
         ELSE CHOOSE q \in
                {IF \E n \in NodesOf(g) : constraints[n] = None THEN None
                 ELSE Some([n \in NodesOf(g) |->
                              PinPairRoutingInfo_from(
                                  [ms[1][n] EXCEPT !.constraints = constraints[n][1]])]) :
                    constraints \in
                        {[n \in NodesOf(g) |->
                             IF opt THEN optimize(ms[1][n].constraints)
                             ELSE Some(ms[1][n].constraints)]}} : TRUE :
            ms \in {route_all(g, PortToPortRouter_new(g, a, None, opt))}} : TRUE

\* The inner loop of route_range without `if to == from { continue; }`
route_range_insert_self(map, a, routing_results) ==
    LET Kept == {to \in DOMAIN routing_results :
                    (Len(routing_results[to].requires) # 0
                        \/ Len(routing_results[to].implies) # 0)}
    IN [k \in (DOMAIN map) \cup {<<a, to>> : to \in Kept} |->
            IF k[1] = a /\ k[2] \in Kept THEN routing_results[k[2]] ELSE map[k]]

\* route_range, the inner loop over the routing results of one source
route_range_insert(map, a, routing_results) ==
    LET Kept == {to \in DOMAIN routing_results :
                    /\ to # a
                    /\ (Len(routing_results[to].requires) # 0
                        \/ Len(routing_results[to].implies) # 0)}
    IN [k \in (DOMAIN map) \cup {<<a, to>> : to \in Kept} |->
            IF k[1] = a /\ k[2] \in Kept THEN routing_results[k[2]] ELSE map[k]]

\* route_range, the loop from source `a` on
RECURSIVE route_range_loop(_, _, _, _, _)
route_range_loop(g, a, end, opt, map) ==
    IF a >= end THEN Some(map)
    ELSE IF g.nodes[a].dir = "Input" THEN route_range_loop(g, a + 1, end, opt, map)
    ELSE CHOOSE r \in {IF routing_results = None THEN None
                         ELSE route_range_loop(g, a + 1, end, opt,
                                  route_range_insert(map, a, routing_results[1])) :
                          routing_results \in {route_pins(g, a, opt)}} : TRUE

\* route_range; range is <<start, end>>
route_range(g, range, opt) ==
    IF range[1] >= range[2] THEN Some(<<>>)
    ELSE route_range_loop(g, range[1], range[2], opt, <<>>)

\* BruteRouter::route_all, the pin_to_pin_routing of its RoutingInfo
BruteRouter_route_all(g, opt) == route_range(g, <<0, node_count(g)>>, opt)

\* HashMap::entry(key).or_insert_with(Vec::new).push(value)
entry_push(map, key, value) ==
    IF key \in DOMAIN map THEN [map EXCEPT ![key] = Append(@, value)]
    ELSE [k \in (DOMAIN map) \cup {key} |-> IF k = key THEN <<value>> ELSE map[k]]

\* The loop body of gather_out_of_site_info that takes every source and
\* every sink for a site port
gather_any_port(g, info, key) ==
    LET from == key[1]
        to == key[2]
        from_node == g.nodes[from]
        to_node == g.nodes[to]
    IN [out_of_site_sources |->
            IF from_node.dir \in {"Output", "Inout"}
            THEN entry_push(info.out_of_site_sources, to, from)
            ELSE info.out_of_site_sources,
        out_of_site_sinks |->
            IF to_node.dir \in {"Input", "Inout"}
            THEN entry_push(info.out_of_site_sinks, from, to)
            ELSE info.out_of_site_sinks]

\* gather_out_of_site_info, the body of its loop for the key (from, to);
\* info is the pair of maps under construction
gather_out_of_site_pair(g, info, key) ==
    LET from == key[1]
        to == key[2]
        from_node == g.nodes[from]
        to_node == g.nodes[to]
    IN [out_of_site_sources |->
            IF from_node.dir \in {"Output", "Inout"} /\ from_node.kind[1] = "SitePort"
            THEN entry_push(info.out_of_site_sources, to, from)
            ELSE info.out_of_site_sources,
        out_of_site_sinks |->
            IF to_node.dir \in {"Input", "Inout"} /\ to_node.kind[1] = "SitePort"
            THEN entry_push(info.out_of_site_sinks, from, to)
            ELSE info.out_of_site_sinks]

\* split_range_nicely that forgets the pins left over by the division
split_range_evenly(range, slices) ==
    LET len == range[2] - range[1]
        split_sz == len \div slices
        all == [i \in 1..slices |-> <<(i - 1) * split_sz, i * split_sz>>]
    IN SelectSeq(all, LAMBDA r : r[1] # r[2])

\* split_range_nicely: the ranges in the order they are yielded
split_range_nicely(range, slices) ==
    LET len == range[2] - range[1]
        split_sz == len \div slices
        total == split_sz * slices
        left == len - total
        my_len(i) == IF i <= left THEN split_sz + 1 ELSE split_sz
        current_idx(i) == (i - 1) * split_sz + (IF i - 1 <= left THEN i - 1 ELSE left)
        all == [i \in 1..slices |-> <<current_idx(i), current_idx(i) + my_len(i)>>]
    IN SelectSeq(all, LAMBDA r : r[1] # r[2])

(***************************************************************************)
(* Truth tables: the meaning of terms, cubes and formulas, against which   *)
(* the engine's answers are compared.                                      *)
(***************************************************************************)
Interpretations == [Ids -> BOOLEAN]

TermHolds(t, I) ==
    CASE t.kind = "Var" -> I[t.id]
      [] t.kind = "NegVar" -> ~I[t.id]
      [] t.kind = "True" -> TRUE
      [] t.kind = "False" -> FALSE

CubeHolds(c, I) == \A i \in 1..Len(c) : TermHolds(c[i], I)

FormHolds(f, I) == \E k \in 1..Len(f) : CubeHolds(f[k], I)

\* Strictly ascending literals, at most one per variable, no constants.
IsLiteralCube(c) ==
    /\ \A i \in 1..Len(c) : IsVarKind(c[i].kind)
    /\ \A i, j \in 1..Len(c) : i < j => c[i].id < c[j].id

\* The cube normal form of the data model: a literal cube, or [False].
IsNormalCube(c) == IsLiteralCube(c) \/ c = <<False>>

(***************************************************************************)
(* State                                                                   *)
(***************************************************************************)
VARIABLES
    \* CubeSpec: two cubes built by add_term, the last add_term call on
    \* `cube` (the cube before it and the term added), and the result of the
    \* last try_to_reduce_disjunction(cube, other_cube), when still current.
    cube, other_cube, prev_cube, last_term, reduction,
    \* FormSpec: two formulas, whether an operation has panicked, and the
    \* answer of the last query on the two formulas, when still current.
    form, other_form, panicked, answer,
    \* OptimizeSpec: two calls of optimize in a row, the second on the result
    \* of the first. opt_input is the formula the first call is given,
    \* opt_cubes and opt_facts are `self.cubes` and `facts.cubes` of the call
    \* in progress, opt_pc is the position ("first", "returned", "second",
    \* "done"), opt_first is the result of the first call, and opt_seen holds
    \* the configurations in which the call in progress has entered `'outer`.
    opt_input, opt_cubes, opt_facts, opt_pc, opt_first, opt_seen,
    \* RouterSpec: the routing graph, the PortToPortRouter made for one source
    \* pin (None before there is one), the markers that its route_all has
    \* returned (None before it returns), and the configurations in which
    \* its routing_step has been entered.
    graph, router, returned, seen,
    \* BatchSpec: route_all_multithreaded on `graph`. thread_count and
    \* optimize_arg are the arguments,
    \* ranges is what split_range_nicely has still to yield, handles holds
    \* one record per spawned thread (its range, whether it has finished,
    \* the map it returned), joined counts the handles joined, total_map is
    \* the map being merged, result is the pin_to_pin_routing returned,
    \* and finish_order lists the threads in the order they finished.
    thread_count, optimize_arg, ranges, handles, joined, total_map,
    result, finish_order,
    \* TermSpec: two terms and the answers of partial_cmp on them, called
    \* with the terms in the two orders (None before the call).
    lhs, rhs, cmp_fwd, cmp_rev,
    \* SplitSpec: one call of split_range_nicely. split_range is the range
    \* given (<<start, end>>), split_slices the number of slices, and
    \* split_out the ranges collected from the iterator (None before).
    split_range, split_slices, split_out,
    \* BuildSpec: BruteRouter::new on one site type. bels is the BEL list,
    \* built the graph under construction, build_pc the position ("new",
    \* "wires", "pips", "returned", "panicked"), wires_done and pips_done the
    \* site wires and site PIPs that the loops have been through.
    bels, built, build_pc, wires_done, pips_done,
    \* InfoSpec: BruteRouter::route_all on the graph `built` of a router that
    \* new() has returned. info_pc is the position ("route", "gather",
    \* "returned"), info_optimize the argument, pin_to_pin_routing the pair
    \* map, map_iter the keys that the loop of gather_out_of_site_info has
    \* not been given yet, out_of_site the two maps it fills.
    info_pc, info_optimize, pin_to_pin_routing, map_iter, out_of_site,
    \* StringsSpec: the string pool. GLOBAL_STRINGS is the vector and
    \* GLOBAL_STRINGS_REVMAP the reverse map; revmap_owner is the thread that
    \* holds the mutex of the reverse map, strings_writer the thread that
    \* holds the write lock of the vector and strings_readers the threads
    \* that hold a read guard of it, writer_first says whether the RwLock
    \* keeps readers out while a writer waits, callers gives every thread
    \* its position, its argument and the calls it has left, and issued is
    \* the set of <<string, id>> that create_global_string has returned.
    GLOBAL_STRINGS, GLOBAL_STRINGS_REVMAP, revmap_owner, strings_writer, strings_readers, writer_first, callers, issued

cubeVars == <<cube, other_cube, prev_cube, last_term, reduction>>
formVars == <<form, other_form, panicked, answer>>

optVars == <<opt_input, opt_cubes, opt_facts, opt_pc, opt_first, opt_seen>>

routerVars == <<graph, router, returned, seen>>
batchVars == <<thread_count, optimize_arg, ranges, handles, joined,
               total_map, result, finish_order>>

termVars == <<lhs, rhs, cmp_fwd, cmp_rev>>

splitVars == <<split_range, split_slices, split_out>>

buildVars == <<bels, built, build_pc, wires_done, pips_done>>

infoVars == <<info_pc, info_optimize, pin_to_pin_routing, map_iter, out_of_site>>

stringsVars == <<GLOBAL_STRINGS, GLOBAL_STRINGS_REVMAP, revmap_owner, strings_writer, strings_readers, writer_first, callers, issued>>

\* The variables that the actions of one specification leave alone.
notCubeVars == <<formVars, optVars, routerVars, batchVars, termVars,
                 splitVars, buildVars, infoVars, stringsVars>>
notFormVars == <<cubeVars, optVars, routerVars, batchVars, termVars,
                 splitVars, buildVars, infoVars, stringsVars>>
notOptVars == <<cubeVars, formVars, routerVars, batchVars, termVars,
                splitVars, buildVars, infoVars, stringsVars>>
notRouterVars == <<cubeVars, formVars, optVars, batchVars, termVars,
                   splitVars, buildVars, infoVars, stringsVars>>
notBatchVars == <<cubeVars, formVars, optVars, routerVars, termVars,
                  splitVars, buildVars, infoVars, stringsVars>>
notTermVars == <<cubeVars, formVars, optVars, routerVars, batchVars,
                 splitVars, buildVars, infoVars, stringsVars>>
notSplitVars == <<cubeVars, formVars, optVars, routerVars, batchVars,
                  termVars, buildVars, infoVars, stringsVars>>
notBuildVars == <<cubeVars, formVars, optVars, routerVars, batchVars,
                  termVars, splitVars, infoVars, stringsVars>>
notInfoVars == <<cubeVars, formVars, optVars, routerVars, batchVars,
                 termVars, splitVars, buildVars, stringsVars>>
notStringsVars == <<cubeVars, formVars, optVars, routerVars, batchVars,
                    termVars, splitVars, buildVars, infoVars>>

vars == <<cubeVars, formVars, optVars, routerVars, batchVars, termVars,
          splitVars, buildVars, infoVars, stringsVars>>

CubeIdle ==
    /\ cube = DNFCube_new
    /\ other_cube = DNFCube_new
    /\ prev_cube = DNFCube_new
    /\ last_term = None
    /\ reduction = None

FormIdle ==
    /\ form = DNFForm_new
    /\ other_form = DNFForm_new
    /\ panicked = FALSE
    /\ answer = None

OptIdle ==
    /\ opt_input = DNFForm_new
    /\ opt_cubes = DNFForm_new
    /\ opt_facts = <<>>
    /\ opt_pc = "idle"
    /\ opt_first = None
    /\ opt_seen = {}

RouterIdle ==
    /\ graph = RoutingGraph_new(NumPins)
    /\ router = None
    /\ returned = None
    /\ seen = {}

BatchIdle ==
    /\ thread_count = 1
    /\ optimize_arg = FALSE
    /\ ranges = <<>>
    /\ handles = <<>>
    /\ joined = 0
    /\ total_map = <<>>
    /\ result = None
    /\ finish_order = <<>>

TermIdle ==
    /\ lhs = True
    /\ rhs = True
    /\ cmp_fwd = None
    /\ cmp_rev = None

SplitIdle ==
    /\ split_range = <<0, 0>>
    /\ split_slices = 1
    /\ split_out = None

BuildIdle ==
    /\ bels = <<>>
    /\ built = RoutingGraph_new(0)
    /\ build_pc = "idle"
    /\ wires_done = {}
    /\ pips_done = {}

InfoIdle ==
    /\ info_pc = "idle"
    /\ info_optimize = FALSE
    /\ pin_to_pin_routing = <<>>
    /\ map_iter = {}
    /\ out_of_site = [out_of_site_sources |-> <<>>, out_of_site_sinks |-> <<>>]

StringsIdle ==
    /\ GLOBAL_STRINGS = <<>>
    /\ GLOBAL_STRINGS_REVMAP = <<>>
    /\ revmap_owner = None
    /\ strings_writer = None
    /\ strings_readers = {}
    /\ writer_first = FALSE
    /\ callers = <<>>
    /\ issued = {}

(***************************************************************************)
(* CubeSpec: the cube operations on cubes grown by add_term.               *)
(***************************************************************************)
CubeInit == CubeIdle /\ FormIdle /\ OptIdle /\ RouterIdle /\ BatchIdle
    /\ StringsIdle
    /\ InfoIdle
    /\ BuildIdle
    /\ SplitIdle
    /\ TermIdle

\* cube.add_term(term)
AddTerm ==
    \E term \in FormulaTerm :
        /\ Len(cube) < MaxTerms
        /\ cube' = add_term(cube, term)
        /\ prev_cube' = cube
        /\ last_term' = Some(term)
        /\ reduction' = None
        /\ UNCHANGED <<other_cube, notCubeVars>>

\* other_cube.add_term(term)
AddTermOther ==
    \E term \in FormulaTerm :
        /\ Len(other_cube) < MaxTerms
        /\ other_cube' = add_term(other_cube, term)
        /\ reduction' = None
        /\ UNCHANGED <<cube, prev_cube, last_term, notCubeVars>>

\* reduction = cube.try_to_reduce_disjunction(&other_cube)
TryToReduce ==
    /\ reduction = None
    /\ reduction' = Some(try_to_reduce_disjunction(cube, other_cube))
    /\ UNCHANGED <<cube, other_cube, prev_cube, last_term, notCubeVars>>

CubeNext == AddTerm \/ AddTermOther \/ TryToReduce

CubeSpec == CubeInit /\ [][CubeNext]_vars

(***************************************************************************)
(* Claims on cubes                                                         *)
(***************************************************************************)
\* C1: whenever try_to_reduce_disjunction(A, B) returns a cube R for sorted
\* cubes A and B, R has the truth table of A \/ B.
C1_ReductionIsEquivalent ==
    (/\ reduction # None
     /\ reduction[1] # None
     /\ IsNormalCube(cube)
     /\ IsNormalCube(other_cube))
    => \A I \in Interpretations :
          CubeHolds(reduction[1][1], I) <=> (CubeHolds(cube, I) \/ CubeHolds(other_cube, I))

\* C4: add_term of a literal on a cube that already holds the complementary
\* literal of the same variable leaves the single-term cube [False].
C4_ComplementCollapses ==
    (/\ last_term # None
     /\ IsVarKind(last_term[1].kind)
     /\ \E i \in 1..Len(prev_cube) : neg_eq(last_term[1], prev_cube[i]))
    => cube = <<False>>

(***************************************************************************)
(* FormSpec: the formula operations on formulas whose cubes were grown by  *)
(* add_term.                                                               *)
(***************************************************************************)
\* The cubes that at most n add_term calls build from DNFCube::new().
RECURSIVE CubesAfter(_)
CubesAfter(n) ==
    IF n = 0 THEN {DNFCube_new}
    ELSE LET S == CubesAfter(n - 1)
         IN S \cup {add_term(c, t) : c \in S, t \in FormulaTerm}

Cubes == CubesAfter(MaxCubeTerms)

\* The is_subcube calls that self.is_subformula_of(other) makes, each with its
\* result: the cubes of self up to the first one with no match, and for each
\* the cubes of other up to its first match.
subcube_calls(self, other) ==
    LET Found(i) == \E j \in 1..Len(other) : is_subcube(self[i], other[j])
        Visited(i) == \A k \in 1..(i - 1) : Found(k)
        Called(i, j) == Visited(i) /\ \A l \in 1..(j - 1) : ~is_subcube(self[i], other[l])
    IN {[a |-> self[p[1]], b |-> other[p[2]], result |-> is_subcube(self[p[1]], other[p[2]])] :
            p \in {q \in (1..Len(self)) \X (1..Len(other)) : Called(q[1], q[2])}}

FormInit == CubeIdle /\ FormIdle /\ OptIdle /\ RouterIdle /\ BatchIdle
    /\ StringsIdle
    /\ InfoIdle
    /\ BuildIdle
    /\ SplitIdle
    /\ TermIdle

\* form = form.add_cube(c)
FormAddCube ==
    \E c \in Cubes :
        /\ ~panicked
        /\ Len(form) < MaxCubes
        /\ form' = add_cube(form, c)
        /\ answer' = None
        /\ UNCHANGED <<other_form, panicked, notFormVars>>

\* form = form.add_cube_opt(c)
FormAddCubeOpt ==
    \E c \in Cubes :
        /\ ~panicked
        /\ Len(add_cube_opt(form, c)) <= MaxCubes
        /\ form' = add_cube_opt(form, c)
        /\ answer' = None
        /\ UNCHANGED <<other_form, panicked, notFormVars>>

\* other_form = other_form.add_cube(c)
OtherAddCube ==
    \E c \in CubesAfter(MaxOtherTerms) :
        /\ ~panicked
        /\ Len(other_form) < MaxOtherCubes
        /\ other_form' = add_cube(other_form, c)
        /\ answer' = None
        /\ UNCHANGED <<form, panicked, notFormVars>>

\* form = form.disjunct(other_form.clone())
FormDisjunct ==
    /\ ~panicked
    /\ Len(form) + Len(other_form) <= MaxCubes
    /\ form' = disjunct(form, other_form)
    /\ answer' = None
    /\ UNCHANGED <<other_form, panicked, notFormVars>>

\* form = form.disjunct_opt(other_form.clone())
FormDisjunctOpt ==
    /\ ~panicked
    /\ Len(disjunct_opt(form, other_form)) <= MaxCubes
    /\ form' = disjunct_opt(form, other_form)
    /\ answer' = None
    /\ UNCHANGED <<other_form, panicked, notFormVars>>

\* form = form.conjunct_term(&term)
FormConjunctTerm ==
    \E term \in FormulaTerm :
        /\ ~panicked
        /\ \A i \in 1..Len(form) : Len(form[i]) < MaxTerms
        /\ form' = conjunct_term(form, term)
        /\ answer' = None
        /\ UNCHANGED <<other_form, panicked, notFormVars>>

\* form = form.conjunct_term_with(at, term); a panic ends the program.
FormConjunctTermWith ==
    \E at \in 0..MaxCubes, term \in FormulaTerm :
        /\ ~panicked
        /\ at < Len(form) => Len(form[at + 1]) < MaxTerms
        /\ LET r == conjunct_term_with(form, at, term)
           IN /\ form' = r.form
              /\ panicked' = r.panic
        /\ answer' = None
        /\ UNCHANGED <<other_form, notFormVars>>

\* answer = form.is_subformula_of(&other_form)
FormIsSubformulaOf ==
    /\ ~panicked
    /\ answer = None
    /\ answer' = Some([op |-> "is_subformula_of",
                       value |-> is_subformula_of(form, other_form),
                       swapped |-> is_subformula_of(form, other_form),
                       calls |-> subcube_calls(form, other_form)])
    /\ UNCHANGED <<form, other_form, panicked, notFormVars>>

\* answer = (form == other_form), with (other_form == form) next to it
FormEq ==
    /\ ~panicked
    /\ answer = None
    /\ answer' = Some([op |-> "eq",
                       value |-> form_eq(form, other_form),
                       swapped |-> form_eq(other_form, form),
                       calls |-> {}])
    /\ UNCHANGED <<form, other_form, panicked, notFormVars>>

FormNext ==
    \/ FormAddCube
    \/ FormAddCubeOpt
    \/ OtherAddCube
    \/ FormDisjunct
    \/ FormDisjunctOpt
    \/ FormConjunctTerm
    \/ FormConjunctTermWith
    \/ FormIsSubformulaOf
    \/ FormEq

FormSpec == FormInit /\ [][FormNext]_vars

(***************************************************************************)
(* Claims on formulas                                                      *)
(***************************************************************************)
CubeImplies(a, b) == \A I \in Interpretations : CubeHolds(a, I) => CubeHolds(b, I)

FormImplies(f, g) == \A I \in Interpretations : FormHolds(f, I) => FormHolds(g, I)

\* C3: is_subcube(a, b) on normal-form cubes answers true exactly when every
\* assignment satisfying a satisfies b, and f.is_subformula_of(g) answers true
\* exactly when every assignment satisfying f satisfies g.
C3_SubsumptionIsImplication ==
    (answer # None /\ answer[1].op = "is_subformula_of")
    => /\ answer[1].value <=> FormImplies(form, other_form)
       /\ \A call \in answer[1].calls :
              (IsNormalCube(call.a) /\ IsNormalCube(call.b))
              => (call.result <=> CubeImplies(call.a, call.b))

\* C7: f == g answers true exactly when f and g are subformulas of each
\* other, and it answers the same as g == f.
C7_EqualityIsMutualContainment ==
    (answer # None /\ answer[1].op = "eq")
    => /\ answer[1].value <=> (/\ is_subformula_of(form, other_form)
                               /\ is_subformula_of(other_form, form))
       /\ answer[1].value <=> answer[1].swapped

\* C10: no operation of the DNF engine panics, whatever the cube, formula,
\* term or index it is given.
C10_NoOperationPanics == panicked = FALSE

(***************************************************************************)
(* OptimizeSpec: optimize, one pass of `'outer` at a time, called twice.   *)
(***************************************************************************)
\* The formulas of at most n cubes.
FormsUpTo(n) == UNION {[1..k -> Cubes] : k \in 0..n}

\* What a pass of `'outer` depends on: the cubes and the distinct facts.
opt_config == <<opt_cubes, distinct_facts(opt_facts, <<>>)>>

OptInit ==
    /\ CubeIdle
    /\ FormIdle
    /\ RouterIdle
    /\ BatchIdle
    /\ TermIdle
    /\ SplitIdle
    /\ BuildIdle
    /\ InfoIdle
    /\ StringsIdle
    /\ opt_input \in FormsUpTo(MaxOptCubes)
    /\ opt_cubes = opt_input
    /\ opt_facts = <<>>
    /\ opt_pc = "first"
    /\ opt_first = None
    /\ opt_seen = {}

\* One pass of `'outer` that finds a reduction and applies it. A pass entered
\* in a configuration of opt_seen repeats the passes made since, for ever:
\* it is not followed further.
OptReduce ==
    /\ opt_pc \in {"first", "second"}
    /\ opt_config \notin opt_seen
    /\ find_reduction(opt_cubes, opt_facts) # None
    /\ LET st == optimize_apply(opt_cubes, opt_facts,
                                find_reduction(opt_cubes, opt_facts)[1])
       IN /\ opt_cubes' = st.cubes
          /\ opt_facts' = st.facts
    /\ opt_seen' = opt_seen \cup {opt_config}
    /\ UNCHANGED <<opt_input, opt_pc, opt_first, notOptVars>>

\* The pass of `'outer` that finds no reduction: `break 'outer` and return.
OptReturn ==
    /\ opt_pc \in {"first", "second"}
    /\ find_reduction(opt_cubes, opt_facts) = None
    /\ opt_pc' = IF opt_pc = "first" THEN "returned" ELSE "done"
    /\ opt_first' = IF opt_pc = "first" THEN Some(opt_cubes) ELSE opt_first
    /\ UNCHANGED <<opt_input, opt_cubes, opt_facts, opt_seen, notOptVars>>

\* The second call, on the formula the first call returned.
OptCallAgain ==
    /\ opt_pc = "returned"
    /\ opt_pc' = "second"
    /\ opt_facts' = <<>>
    /\ opt_seen' = {}
    /\ UNCHANGED <<opt_input, opt_cubes, opt_first, notOptVars>>

OptNext == OptReduce \/ OptReturn \/ OptCallAgain

OptimizeSpec == OptInit /\ [][OptNext]_vars

(***************************************************************************)
(* Claims on optimize                                                      *)
(***************************************************************************)
\* C8: optimize terminates on every formula. The cubes and the distinct
\* facts at the head of `'outer` determine the rest of the call, so a call
\* that terminates never enters `'outer` twice in the same configuration.
C8_OptimizeTerminates ==
    opt_pc \in {"first", "second"} => opt_config \notin opt_seen

\* C9: optimize is idempotent: the second call, on the result of the first,
\* returns the very same list of cubes.
C9_OptimizeIdempotent ==
    opt_pc = "done" => opt_cubes = opt_first[1]

\* C9, witness: both calls have returned, and the first one has reduced its
\* input to another, non-empty list of cubes.
C9_Witness ==
    /\ opt_pc = "done"
    /\ opt_first[1] # opt_input
    /\ opt_first[1] # <<>>

(***************************************************************************)
(* RouterSpec: a routing graph is connected edge by edge, then one         *)
(* PortToPortRouter routes from one source pin, one routing_step at a time.*)
(***************************************************************************)
RouterInit == CubeIdle /\ FormIdle /\ OptIdle /\ RouterIdle /\ BatchIdle
    /\ StringsIdle
    /\ InfoIdle
    /\ BuildIdle
    /\ SplitIdle
    /\ TermIdle

EdgeCount(g) == Cardinality({e \in DOMAIN g.edges : g.edges[e]})

\* graph.connect(a, b), as init_site_wires_in_graph and
\* init_pseudopips_in_graph call it: between two different pins.
Connect ==
    \E a \in NodesOf(graph), b \in NodesOf(graph) :
        /\ router = None
        /\ a # b
        /\ ~graph.edges[<<a, b>>]
        /\ EdgeCount(graph) < MaxEdges
        /\ graph' = connect(graph, a, b)
        /\ UNCHANGED <<router, returned, seen, notRouterVars>>

\* PortToPortRouter::new(&graph, a, &callback, opt).route_all(), up to its
\* loop
RouteAllBegin ==
    \E a \in NodesOf(graph), callback \in Callbacks, opt \in BOOLEAN :
        /\ router = None
        /\ router' = Some(route_all_begin(PortToPortRouter_new(graph, a, callback, opt)))
        /\ UNCHANGED <<graph, returned, seen, notRouterVars>>

\* routing_step on a queue that is not empty. A step entered in a
\* configuration of `seen` repeats the steps made since, for ever: it is not
\* followed further.
RoutingStep ==
    /\ router # None
    /\ returned = None
    /\ router[1].queue # <<>>
    /\ router_config(router[1]) \notin seen
    /\ \E new_acc \in callback_answers(router[1], Head(router[1].queue)) :
          router' = Some(routing_step_acc(graph, router[1], new_acc))
    /\ seen' = seen \cup {router_config(router[1])}
    /\ UNCHANGED <<graph, returned, notRouterVars>>

\* routing_step on the empty queue returns None: route_all returns the markers
RouteAllReturn ==
    /\ router # None
    /\ returned = None
    /\ router[1].queue = <<>>
    /\ returned' = Some(router[1].markers)
    /\ UNCHANGED <<graph, router, seen, notRouterVars>>

RouterNext == Connect \/ RouteAllBegin \/ RoutingStep \/ RouteAllReturn

RouterSpec == RouterInit /\ [][RouterNext]_vars

(***************************************************************************)
(* Claims on the router                                                    *)
(***************************************************************************)
\* The nodes that a path of one edge or more leads to from the nodes of S.
RECURSIVE ReachableFrom(_, _)
ReachableFrom(g, S) ==
    LET T == S \cup {b \in NodesOf(g) : \E a \in S : g.edges[<<a, b>>]}
    IN IF T = S THEN S ELSE ReachableFrom(g, T)

Reachable(g, a) == ReachableFrom(g, {b \in NodesOf(g) : g.edges[<<a, b>>]})

Satisfiable(f) == \E I \in [NodesOf(graph) -> BOOLEAN] : FormHolds(f, I)

\* C2: route_all terminates on every graph and source. The queue and the
\* cube sets of the constraints at the entry of routing_step determine the
\* steps to come, so a run that terminates never enters routing_step twice
\* in the same configuration.
C2_RouteAllTerminates ==
    (router # None /\ returned = None)
    => router_config(router[1]) \notin seen

\* C5: when route_all has returned, every pin reachable from the source has
\* requires (constraints) that hold cubes and are satisfiable, and every pin
\* that is neither reachable nor the source has no cube in requires nor in
\* implies (activated).
C5_ReachableMarked ==
    returned # None
    => \A t \in NodesOf(graph) :
          /\ t \in Reachable(graph, router[1].from)
             => /\ returned[1][t].constraints # <<>>
                /\ Satisfiable(returned[1][t].constraints)
          /\ (t \notin Reachable(graph, router[1].from) /\ t # router[1].from)
             => /\ returned[1][t].constraints = <<>>
                /\ returned[1][t].activated = <<>>

\* C5, witness: route_all has returned on a graph with a pin at two edges from
\* the source, a pin with two drivers that was reached, and a pin not reached.
C5_Witness ==
    /\ returned # None
    /\ \E t \in Reachable(graph, router[1].from) :
          /\ ~graph.edges[<<router[1].from, t>>]
          /\ t # router[1].from
    /\ \E t \in Reachable(graph, router[1].from) :
          Len(edges_to(graph, t)) >= 2
    /\ \E t \in NodesOf(graph) : t \notin Reachable(graph, router[1].from) /\ t # router[1].from

(***************************************************************************)
(* BatchSpec: route_all_multithreaded. Every thread owns a clone of the    *)
(* router and a map of its own, so that its route_range is one step.       *)
(***************************************************************************)
\* The graphs of pin_count nodes that init_bels_in_graph has given a dir and
\* a kind, with edges between different pins.
Graphs(pin_count) ==
    LET N == 0..(pin_count - 1) IN
    {[nodes |-> [n \in N |-> [kind |-> BelPort(n), dir |-> ds[n]]],
      edges |-> [e \in N \X N |-> e \in S]] :
        ds \in [N -> PinDir], S \in SUBSET {e \in N \X N : e[1] # e[2]}}

BatchInit ==
    /\ CubeIdle
    /\ FormIdle
    /\ OptIdle
    /\ TermIdle
    /\ SplitIdle
    /\ BuildIdle
    /\ InfoIdle
    /\ StringsIdle
    /\ graph \in Graphs(NumBatchPins)
    /\ router = None
    /\ returned = None
    /\ seen = {}
    /\ thread_count \in 1..MaxThreads
    /\ optimize_arg \in BOOLEAN
    /\ ranges = split_range_nicely(<<0, node_count(graph)>>, thread_count)
    /\ handles = <<>>
    /\ joined = 0
    /\ total_map = <<>>
    /\ result = None
    /\ finish_order = <<>>

\* thread::spawn for the next range
Spawn ==
    /\ ranges # <<>>
    /\ handles' = Append(handles, [range |-> Head(ranges), finished |-> FALSE, map |-> <<>>])
    /\ ranges' = Tail(ranges)
    /\ UNCHANGED <<thread_count, optimize_arg, joined, total_map, result,
                   finish_order, notBatchVars>>

\* A thread runs me.borrow().route_range(range, optimize) and finishes.
ThreadRun ==
    \E w \in 1..Len(handles) :
        /\ ~handles[w].finished
        /\ \E map \in {route_range(graph, handles[w].range, optimize_arg)} :
              /\ map # None
              /\ handles' = [handles EXCEPT ![w].finished = TRUE, ![w].map = map[1]]
        /\ finish_order' = Append(finish_order, w)
        /\ UNCHANGED <<thread_count, optimize_arg, ranges, joined, total_map,
                       result, notBatchVars>>

\* handle.join().unwrap() of the next handle and total_map.extend(map)
Join ==
    /\ ranges = <<>>
    /\ joined < Len(handles)
    /\ handles[joined + 1].finished
    /\ total_map' = handles[joined + 1].map @@ total_map
    /\ joined' = joined + 1
    /\ UNCHANGED <<thread_count, optimize_arg, ranges, handles, result,
                   finish_order, notBatchVars>>

\* route_all_multithreaded returns
BatchReturn ==
    /\ ranges = <<>>
    /\ joined = Len(handles)
    /\ result = None
    /\ result' = Some(total_map)
    /\ UNCHANGED <<thread_count, optimize_arg, ranges, handles, joined,
                   total_map, finish_order, notBatchVars>>

BatchNext == Spawn \/ ThreadRun \/ Join \/ BatchReturn

BatchSpec == BatchInit /\ [][BatchNext]_vars

(***************************************************************************)
(* Claims on route_all_multithreaded                                       *)
(***************************************************************************)
\* C6: the pair map that route_all_multithreaded returns has the keys of the
\* map of the single-threaded route_all and, for every key, the same requires
\* and implies, whatever the thread count and the order the threads finish in.
C6_MultithreadedEqualsSingle ==
    result # None
    => /\ BruteRouter_route_all(graph, optimize_arg) # None
       /\ result[1] = BruteRouter_route_all(graph, optimize_arg)[1]

\* C6, witness: route_all_multithreaded has returned after two threads or
\* more came back with routes, a later thread finishing first.
C6_Witness ==
    /\ result # None
    /\ \E v, w \in 1..Len(handles) :
          /\ v < w
          /\ DOMAIN handles[v].map # {}
          /\ DOMAIN handles[w].map # {}
          /\ \E i, j \in 1..Len(finish_order) :
                i < j /\ finish_order[i] = w /\ finish_order[j] = v

(***************************************************************************)
(* TermSpec: partial_cmp (and cmp, which unwraps it) on two terms.         *)
(***************************************************************************)
TermInit ==
    /\ CubeIdle
    /\ FormIdle
    /\ OptIdle
    /\ RouterIdle
    /\ BatchIdle
    /\ SplitIdle
    /\ BuildIdle
    /\ InfoIdle
    /\ StringsIdle
    /\ lhs \in FormulaTerm
    /\ rhs \in FormulaTerm
    /\ cmp_fwd = None
    /\ cmp_rev = None

\* lhs.partial_cmp(&rhs)
CmpForward ==
    /\ cmp_fwd = None
    /\ cmp_fwd' = Some(partial_cmp(lhs, rhs))
    /\ UNCHANGED <<lhs, rhs, cmp_rev, notTermVars>>

\* rhs.partial_cmp(&lhs)
CmpBackward ==
    /\ cmp_rev = None
    /\ cmp_rev' = Some(partial_cmp(rhs, lhs))
    /\ UNCHANGED <<lhs, rhs, cmp_fwd, notTermVars>>

TermNext == CmpForward \/ CmpBackward

TermSpec == TermInit /\ [][TermNext]_vars

\* Ordering::reverse
Ordering_reverse(o) ==
    CASE o = "Less" -> "Greater" [] o = "Greater" -> "Less" [] OTHER -> "Equal"

\* The place of a term in the chain False < Var(1) < NegVar(1) < Var(2) < ...
\* < True.
ChainRank(t) ==
    CASE t.kind = "False" -> 0
      [] t.kind = "Var" -> 2 * t.id
      [] t.kind = "NegVar" -> 2 * t.id + 1
      [] OTHER -> 2 * NumVars + 2

\* C11: the comparison is a total order. Called in the two argument orders
\* it gives opposite answers, it answers Equal exactly on equal terms, and
\* its answer is the one of the chain False < Var(v) < NegVar(v) < Var(v') <
\* True for v < v'.
C11_TermOrderIsTotal ==
    (cmp_fwd # None /\ cmp_rev # None)
    => /\ cmp_rev[1] = Ordering_reverse(cmp_fwd[1])
       /\ (cmp_fwd[1] = "Equal") <=> term_eq(lhs, rhs)
       /\ cmp_fwd[1] = id_cmp(ChainRank(lhs), ChainRank(rhs))

(***************************************************************************)
(* More claims on cubes (CubeSpec)                                         *)
(***************************************************************************)
StrictlyAscending(terms) ==
    \A i \in 1..(Len(terms) - 1) :
        /\ term_lt(terms[i], terms[i + 1])
        /\ ChainRank(terms[i]) < ChainRank(terms[i + 1])

\* C12: a cube grown from the empty cube by add_term calls, in any order,
\* has its terms strictly ascending in the term order: sorted, no term
\* twice.
C12_CubeIsSorted == StrictlyAscending(cube) /\ StrictlyAscending(other_cube)

\* C12, witness: add_term has put a term in front of two terms or between
\* them, the terms coming in an order that is not the sorted one.
C12_Witness ==
    /\ last_term # None
    /\ Len(prev_cube) = 2
    /\ Len(cube) = 3
    /\ cube[3] # last_term[1]

\* The cubes a and b are c /\ p and c /\ ~p for the literal cube c and a
\* variable p that c leaves out: literal cubes of one length that differ at
\* position k only, by the polarity of the term there.
ComplementaryAt(a, b, k) ==
    /\ IsLiteralCube(a)
    /\ IsLiteralCube(b)
    /\ Len(a) = Len(b)
    /\ k \in 1..Len(a)
    /\ a[k].id = b[k].id
    /\ a[k].kind # b[k].kind
    /\ \A i \in 1..Len(a) : i # k => a[i] = b[i]

ExtendsAt(c, cx, k) ==
    /\ IsLiteralCube(c)
    /\ IsLiteralCube(cx)
    /\ Len(cx) = Len(c) + 1
    /\ k \in 1..Len(cx)
    /\ VecRemove(cx, k - 1) = c

C15_AddCubeMergesComplementaries ==
    \A k \in 1..MaxCubeTerms :
        (/\ answer # None
         /\ answer[1].op = "eq"
         /\ Len(form) = 2
         /\ ComplementaryAt(form[1], form[2], k)
         /\ other_form = add_cube(DNFForm_new, VecRemove(form[1], k - 1)))
        => answer[1].value

(***************************************************************************)
(* SplitSpec: split_range_nicely on a range and a number of slices.        *)
(***************************************************************************)
SplitInit ==
    /\ CubeIdle
    /\ FormIdle
    /\ OptIdle
    /\ RouterIdle
    /\ BatchIdle
    /\ TermIdle
    /\ BuildIdle
    /\ InfoIdle
    /\ StringsIdle
    /\ \E start \in 0..MaxRangeStart, len \in 0..MaxRangeLen :
          split_range = <<start, start + len>>
    /\ split_slices \in 1..MaxSlices
    /\ split_out = None

\* split_range_nicely(range, slices).collect()
SplitCall ==
    /\ split_out = None
    /\ split_out' = Some(split_range_nicely(split_range, split_slices))
    /\ UNCHANGED <<split_range, split_slices, notSplitVars>>

SplitNext == SplitCall

SplitSpec == SplitInit /\ [][SplitNext]_vars

\* C16: the ranges that split_range_nicely yields are not empty, each starts
\* where the one before it ends, the first starts at the start of the input
\* range and the last ends at its end (no range for an empty input), and a
\* range is as long as any later one or one index longer.
C16_SplitIsEvenPartition ==
    split_out # None
    => LET rs == split_out[1]
           n == Len(rs)
       IN /\ \A i \in 1..n : rs[i][1] < rs[i][2]
          /\ \A i \in 1..(n - 1) : rs[i][2] = rs[i + 1][1]
          /\ IF split_range[1] = split_range[2] THEN n = 0
             ELSE n > 0 /\ rs[1][1] = split_range[1] /\ rs[n][2] = split_range[2]
          /\ \A i, j \in 1..n :
                i < j => /\ rs[i][2] - rs[i][1] >= rs[j][2] - rs[j][1]
                         /\ rs[i][2] - rs[i][1] <= rs[j][2] - rs[j][1] + 1

(***************************************************************************)
(* BuildSpec: BruteRouter::new without virtual constants, from the BEL     *)
(* list to the routing graph. The site wires and site PIPs are read one by *)
(* one from the site type.                                                 *)
(***************************************************************************)
\* The BEL lists: NumBels BELs of either category with one pin or more each
\* and MaxSitePins pins together, of any direction.
BELInfo ==
    [category : BELCategory,
     pins : UNION {[1..k -> PinDir] : k \in 1..(MaxSitePins - NumBels + 1)}]

\* gather_bels_in_site_type: the BEL lists it hands to new()
BELLists ==
    {bs \in [1..NumBels -> BELInfo] :
        Len(tile_belpin_idx_to_bel_pin(bs, 0)) <= MaxSitePins}

BuildInit ==
    /\ CubeIdle
    /\ FormIdle
    /\ OptIdle
    /\ RouterIdle
    /\ BatchIdle
    /\ TermIdle
    /\ SplitIdle
    /\ InfoIdle
    /\ StringsIdle
    /\ bels \in BELLists
    /\ built = RoutingGraph_new(0)
    /\ build_pc = "new"
    /\ wires_done = {}
    /\ pips_done = {}

\* create_routing_graph: RoutingGraph::new and init_bels_in_graph
CreateRoutingGraph ==
    /\ build_pc = "new"
    /\ built' = init_bels_in_graph(
                    RoutingGraph_new(Len(tile_belpin_idx_to_bel_pin(bels, 0))), bels)
    /\ build_pc' = "wires"
    /\ UNCHANGED <<bels, wires_done, pips_done, notBuildVars>>

\* init_site_wires_in_graph, one turn of `for wire in sw_list`
InitSiteWire ==
    \E wire \in SUBSET BelPinsOf(bels) :
        /\ build_pc = "wires"
        /\ Cardinality(wires_done) < MaxWires
        /\ wire \notin wires_done
        /\ built' = init_site_wire_in_graph(built, bels, wire)
        /\ wires_done' = wires_done \cup {wire}
        /\ UNCHANGED <<bels, build_pc, pips_done, notBuildVars>>

\* init_site_wires_in_graph returns
SiteWiresDone ==
    /\ build_pc = "wires"
    /\ build_pc' = "pips"
    /\ UNCHANGED <<bels, built, wires_done, pips_done, notBuildVars>>

\* init_pseudopips_in_graph, one turn of `for spip in st.get_site_p_i_ps()`
InitPseudoPip ==
    \E inpin \in BelPinsOf(bels), outpin \in BelPinsOf(bels) :
        LET spip == [inpin |-> inpin, outpin |-> outpin]
            connected == init_pseudopip_in_graph(built, bels, spip)
        IN /\ build_pc = "pips"
           /\ Cardinality(pips_done) < MaxPips
           /\ spip \notin pips_done
           /\ pips_done' = pips_done \cup {spip}
           /\ IF connected = None
              THEN build_pc' = "panicked" /\ built' = built
              ELSE build_pc' = build_pc /\ built' = connected[1]
           /\ UNCHANGED <<bels, wires_done, notBuildVars>>

\* init_pseudopips_in_graph and create_routing_graph return: no node is a
\* FreePort, and new() has as many BEL pins as the graph has nodes.
BuildReturn ==
    /\ build_pc = "pips"
    /\ \A n \in NodesOf(built) : built.nodes[n].kind # FreePort
    /\ Len(tile_belpin_idx_to_bel_pin(bels, 0)) = node_count(built)
    /\ build_pc' = "returned"
    /\ UNCHANGED <<bels, built, wires_done, pips_done, notBuildVars>>

BuildNext ==
    CreateRoutingGraph \/ InitSiteWire \/ SiteWiresDone \/ InitPseudoPip \/ BuildReturn

BuildSpec == BuildInit /\ [][BuildNext]_vars

\* The direction of a BEL pin <<bel_idx, pin_idx>>
BelPinDir(bel_pin) == bels[bel_pin[1] + 1].pins[bel_pin[2] + 1]

\* C17: once a site wire has been through init_site_wires_in_graph, the
\* graph has the edge d -> s for every two distinct pins d, s of the wire
\* with d an Output or Inout and s an Input or Inout, and the edge stays
\* until new() returns; as long as the site wires alone have made edges, no
\* node has an edge to itself.
C17_SiteWiresConnectDriversToSinks ==
    /\ \A wire \in wires_done : \A d \in wire, s \in wire :
           (/\ d # s
            /\ BelPinDir(d) \in {"Output", "Inout"}
            /\ BelPinDir(s) \in {"Input", "Inout"})
           => built.edges[<<tile_belpin_idx(bels, d), tile_belpin_idx(bels, s)>>]
    /\ (build_pc \in {"wires", "pips", "returned"} /\ pips_done = {})
           => \A n \in NodesOf(built) : ~built.edges[<<n, n>>]

\* new() has returned a graph made from a site wire of an Inout pin and two
\* more pins, one that drives and one that sinks.
C17_Witness ==
    /\ build_pc = "returned"
    /\ pips_done = {}
    /\ \E wire \in wires_done : \E d \in wire, s \in wire, io \in wire :
           /\ Cardinality({d, s, io}) = 3
           /\ BelPinDir(io) = "Inout"
           /\ BelPinDir(d) = "Output"
           /\ BelPinDir(s) = "Input"

\* C18: every site PIP (in, out) that init_pseudopips_in_graph has been
\* through without a panic has the edge in -> out and both its nodes of kind
\* RoutingBelPort of the BEL of the PIP; a site PIP with a pin of a SitePort
\* BEL has been through the loop only when new() has panicked.
C18_PseudoPipsMakeRoutingBels ==
    /\ build_pc \in {"pips", "returned"} =>
           \A spip \in pips_done :
               LET in == tile_belpin_idx(bels, spip.inpin)
                   out == tile_belpin_idx(bels, spip.outpin)
               IN /\ built.edges[<<in, out>>]
                  /\ built.nodes[in].kind = RoutingBelPort(spip.inpin[1])
                  /\ built.nodes[out].kind = RoutingBelPort(spip.inpin[1])
                  /\ spip.outpin[1] = spip.inpin[1]
    /\ \A spip \in pips_done :
           (\/ bels[spip.inpin[1] + 1].category = "SitePort"
            \/ bels[spip.outpin[1] + 1].category = "SitePort")
           => build_pc = "panicked"

\* new() has returned a graph with a site PIP between two pins of a BEL, in
\* a site type that has a SitePort BEL too.
C18_Witness ==
    /\ build_pc = "returned"
    /\ \E spip \in pips_done : spip.inpin # spip.outpin
    /\ \E b \in 1..Len(bels) : bels[b].category = "SitePort"

(***************************************************************************)
(* InfoSpec: BruteRouter::route_all of a router that new() has returned    *)
(* for a site type. gather_out_of_site_info iterates a HashMap, which      *)
(* gives its keys in any order.                                            *)
(***************************************************************************)
\* The site wires that join two pins or more
SiteWires(bs) == {wire \in SUBSET BelPinsOf(bs) : Cardinality(wire) >= 2}

\* The site PIPs between the pins of a site type
SitePIPs(bs) == [inpin : BelPinsOf(bs), outpin : BelPinsOf(bs)]

InfoInit ==
    /\ CubeIdle
    /\ FormIdle
    /\ OptIdle
    /\ RouterIdle
    /\ BatchIdle
    /\ TermIdle
    /\ SplitIdle
    /\ StringsIdle
    /\ bels \in BELLists
    /\ wires_done \in {ws \in SUBSET SiteWires(bels) : Cardinality(ws) <= MaxWires}
    /\ pips_done \in {ps \in SUBSET SitePIPs(bels) : Cardinality(ps) <= MaxPips}
    /\ \E graph_made \in {create_routing_graph(bels, wires_done, pips_done)} :
          /\ graph_made # None
          /\ built = graph_made[1]
    /\ build_pc = "returned"
    /\ info_pc = "route"
    /\ info_optimize \in BOOLEAN
    /\ pin_to_pin_routing = <<>>
    /\ map_iter = {}
    /\ out_of_site = [out_of_site_sources |-> <<>>, out_of_site_sinks |-> <<>>]

\* route_all: self.route_range(SitePinId(0) .. SitePinId(node_count), optimize)
RouteWholeRange ==
    /\ info_pc = "route"
    /\ \E map \in {route_range(built, <<0, node_count(built)>>, info_optimize)} :
          /\ map # None
          /\ pin_to_pin_routing' = map[1]
          /\ map_iter' = DOMAIN map[1]
    /\ info_pc' = "gather"
    /\ UNCHANGED <<info_optimize, out_of_site, notInfoVars>>

\* gather_out_of_site_info, one turn of `for ((from, to), _) in map`
GatherPair ==
    \E key \in map_iter :
        /\ info_pc = "gather"
        /\ out_of_site' = gather_out_of_site_pair(built, out_of_site, key)
        /\ map_iter' = map_iter \ {key}
        /\ UNCHANGED <<info_pc, info_optimize, pin_to_pin_routing, notInfoVars>>

\* gather_out_of_site_info and route_all return the RoutingInfo
InfoReturn ==
    /\ info_pc = "gather"
    /\ map_iter = {}
    /\ info_pc' = "returned"
    /\ UNCHANGED <<info_optimize, pin_to_pin_routing, map_iter, out_of_site,
                   notInfoVars>>

InfoNext == RouteWholeRange \/ GatherPair \/ InfoReturn

InfoSpec == InfoInit /\ [][InfoNext]_vars

\* How many times the pin is listed under the key of one of the two maps
TimesListed(map, key, pin) ==
    IF key \in DOMAIN map
    THEN Cardinality({i \in 1..Len(map[key]) : map[key][i] = pin})
    ELSE 0

\* C19: in the RoutingInfo that route_all returns, out_of_site_sources[t]
\* lists s once when (s, t) is a key of the pair map and node s is a SitePort
\* of direction Output or Inout, and does not list it otherwise;
\* out_of_site_sinks[s] lists t once when (s, t) is a key of the pair map and
\* node t is a SitePort of direction Input or Inout, and not otherwise.
C19_OutOfSiteInfoMatchesPairMap ==
    info_pc = "returned"
    => \A s \in NodesOf(built), t \in NodesOf(built) :
          /\ TimesListed(out_of_site.out_of_site_sources, t, s) =
                IF /\ <<s, t>> \in DOMAIN pin_to_pin_routing
                   /\ built.nodes[s].kind[1] = "SitePort"
                   /\ built.nodes[s].dir \in {"Output", "Inout"}
                THEN 1 ELSE 0
          /\ TimesListed(out_of_site.out_of_site_sinks, s, t) =
                IF /\ <<s, t>> \in DOMAIN pin_to_pin_routing
                   /\ built.nodes[t].kind[1] = "SitePort"
                   /\ built.nodes[t].dir \in {"Input", "Inout"}
                THEN 1 ELSE 0

\* route_all has returned with a pin listed as an out-of-site source, a pin
\* listed as an out-of-site sink, and a key of the pair map that gave neither
\* a source nor a sink.
C19_Witness ==
    /\ info_pc = "returned"
    /\ \E t \in DOMAIN out_of_site.out_of_site_sources :
          Len(out_of_site.out_of_site_sources[t]) >= 1
    /\ \E s \in DOMAIN out_of_site.out_of_site_sinks :
          Len(out_of_site.out_of_site_sinks[s]) >= 1
    /\ \E key \in DOMAIN pin_to_pin_routing :
          /\ TimesListed(out_of_site.out_of_site_sources, key[2], key[1]) = 0
          /\ TimesListed(out_of_site.out_of_site_sinks, key[1], key[2]) = 0

(***************************************************************************)
(* More claims on route_range (BatchSpec)                                  *)
(***************************************************************************)
\* The keys of a thread's map are the pairs (s, t) with s in its range, node
\* s not an Input, t not s, and a routing info of route_pins(s) for t whose
\* requires or implies is not empty.
KeysAreRoutesOfRange(handle) ==
    \A s \in NodesOf(graph) :
        \E routing_results \in {route_pins(graph, s, optimize_arg)} :
            \A t \in NodesOf(graph) :
                (<<s, t>> \in DOMAIN handle.map)
                <=> (/\ handle.range[1] <= s
                     /\ s < handle.range[2]
                     /\ graph.nodes[s].dir # "Input"
                     /\ t # s
                     /\ routing_results # None
                     /\ (\/ Len(routing_results[1][t].requires) # 0
                         \/ Len(routing_results[1][t].implies) # 0))

\* C20: the map that a thread brings back from route_range(range) has the
\* key (s, t) if and only if s is in the range, node s is not an Input, t is
\* not s, and the routing info that route_pins(s) gives for t has a requires
\* or an implies that is not empty; the map and the range of a thread that
\* has come back stay as they are.
C20_RouteRangeKeys ==
    [][\A w \in 1..Len(handles) :
          /\ (~handles[w].finished /\ handles'[w].finished)
                 => KeysAreRoutesOfRange(handles'[w])
          /\ handles[w].finished => handles'[w] = handles[w]]_vars

\* A thread has come back from a range that is not the whole graph with a
\* key in its map, while a pin outside of its range, an Input pin inside of
\* it, and a pin that a source of the range does not reach gave no key.
C20_Witness ==
    \E w \in 1..Len(handles) :
        /\ handles[w].finished
        /\ handles[w].range[2] - handles[w].range[1] >= 2
        /\ handles[w].range[2] - handles[w].range[1] < node_count(graph)
        /\ \E s \in handles[w].range[1]..(handles[w].range[2] - 1) :
              graph.nodes[s].dir = "Input"
        /\ \E s \in handles[w].range[1]..(handles[w].range[2] - 1) :
              /\ \E t \in NodesOf(graph) : <<s, t>> \in DOMAIN handles[w].map
              /\ \E t \in NodesOf(graph) :
                    t # s /\ <<s, t>> \notin DOMAIN handles[w].map
        /\ \E s \in NodesOf(graph) :
              /\ s >= handles[w].range[2]
              /\ graph.nodes[s].dir # "Input"
              /\ \E t \in NodesOf(graph) : graph.edges[<<s, t>>]

(***************************************************************************)
(* StringsSpec: GlobalStringsCtx. A thread calls create_global_string or   *)
(* get_global_string and takes one step at every lock it asks for; the     *)
(* string is a &str or a String, so that s.borrow() and s.to_string() are  *)
(* the same text. A thread that holds a GlobalStringRef drops it before    *)
(* its next call. std gives no word on whether an RwLock lets a reader in  *)
(* while a writer waits: writer_first is either.                           *)
(***************************************************************************)
Callers == 1..NumCallers

PoolStrings == {<<"str", i>> : i \in 1..NumStrings}

\* Mutex::lock that never waits for the owner of the mutex
Mutex_lock_unguarded(owner) == TRUE

\* Mutex::lock returns when nobody owns the mutex
Mutex_lock(owner) == owner = None

\* RwLock::write returns when nobody holds a guard of the lock
RwLock_write(writer, readers) == writer = None /\ readers = {}

\* RwLock::read returns when no writer holds the lock and, with a lock that
\* puts writers first, no writer waits for it
RwLock_read(writer, writers_waiting, first) ==
    writer = None /\ (first => writers_waiting = {})

\* A GlobalStringRef that keeps its guard when it is dropped
RwLockReadGuard_forget(readers, t) == readers

\* drop of a GlobalStringRef: its RwLockReadGuard lets go of the lock
RwLockReadGuard_drop(readers, t) == readers \ {t}

\* The threads inside GLOBAL_STRINGS.write()
WritersWaiting == {t \in Callers : callers[t].pc = "write"}

\* impl Deref for GlobalStringRef: &self.guard[self.idx]
GlobalStringRef_deref(strings, idx) == strings[idx + 1]

StringsInit ==
    /\ CubeIdle
    /\ FormIdle
    /\ OptIdle
    /\ RouterIdle
    /\ BatchIdle
    /\ TermIdle
    /\ SplitIdle
    /\ BuildIdle
    /\ InfoIdle
    /\ GLOBAL_STRINGS = <<>>
    /\ GLOBAL_STRINGS_REVMAP = <<>>
    /\ revmap_owner = None
    /\ strings_writer = None
    /\ strings_readers = {}
    /\ writer_first \in BOOLEAN
    /\ callers = [t \in Callers |-> [pc |-> "idle", arg |-> None, calls |-> 0]]
    /\ issued = {}

\* A thread calls create_global_string(s)
CallCreate(t) ==
    \E s \in PoolStrings :
        /\ callers[t].pc = "idle"
        /\ callers[t].calls < MaxCalls
        /\ callers' = [callers EXCEPT ![t] =
                          [pc |-> "lock", arg |-> s, calls |-> @.calls + 1]]
        /\ UNCHANGED <<GLOBAL_STRINGS, GLOBAL_STRINGS_REVMAP, revmap_owner,
                       strings_writer, strings_readers, writer_first, issued,
                       notStringsVars>>

\* GLOBAL_STRINGS_REVMAP.lock().unwrap()
LockRevmap(t) ==
    /\ callers[t].pc = "lock"
    /\ Mutex_lock(revmap_owner)
    /\ revmap_owner' = Some(t)
    /\ callers' = [callers EXCEPT ![t].pc = "get"]
    /\ UNCHANGED <<GLOBAL_STRINGS, GLOBAL_STRINGS_REVMAP, strings_writer,
                   strings_readers, writer_first, issued, notStringsVars>>

\* revmap.get(s.borrow()): the thread returns the id that is there and
\* drops revmap, or goes on to GLOBAL_STRINGS.write()
RevmapGet(t) ==
    /\ callers[t].pc = "get"
    /\ IF callers[t].arg \in DOMAIN GLOBAL_STRINGS_REVMAP
       THEN /\ issued' = issued \cup
                   {<<callers[t].arg, GLOBAL_STRINGS_REVMAP[callers[t].arg]>>}
            /\ revmap_owner' = IF revmap_owner = Some(t) THEN None ELSE revmap_owner
            /\ callers' = [callers EXCEPT ![t].pc = "idle", ![t].arg = None]
       ELSE /\ callers' = [callers EXCEPT ![t].pc = "write"]
            /\ UNCHANGED <<issued, revmap_owner>>
    /\ UNCHANGED <<GLOBAL_STRINGS, GLOBAL_STRINGS_REVMAP, strings_writer,
                   strings_readers, writer_first, notStringsVars>>

\* GLOBAL_STRINGS.write().unwrap()
WriteStrings(t) ==
    /\ callers[t].pc = "write"
    /\ RwLock_write(strings_writer, strings_readers)
    /\ strings_writer' = Some(t)
    /\ callers' = [callers EXCEPT ![t].pc = "insert"]
    /\ UNCHANGED <<GLOBAL_STRINGS, GLOBAL_STRINGS_REVMAP, revmap_owner,
                   strings_readers, writer_first, issued, notStringsVars>>

\* strings.len(), revmap.insert, strings.push, and the return that drops
\* strings and then revmap
InsertString(t) ==
    LET s == callers[t].arg
        id == Len(GLOBAL_STRINGS)
    IN /\ callers[t].pc = "insert"
       /\ GLOBAL_STRINGS_REVMAP' =
              [k \in (DOMAIN GLOBAL_STRINGS_REVMAP) \cup {s} |->
                  IF k = s THEN id ELSE GLOBAL_STRINGS_REVMAP[k]]
       /\ GLOBAL_STRINGS' = Append(GLOBAL_STRINGS, s)
       /\ strings_writer' = IF strings_writer = Some(t) THEN None ELSE strings_writer
       /\ revmap_owner' = IF revmap_owner = Some(t) THEN None ELSE revmap_owner
       /\ issued' = issued \cup {<<s, id>>}
       /\ callers' = [callers EXCEPT ![t].pc = "idle", ![t].arg = None]
       /\ UNCHANGED <<strings_readers, writer_first, notStringsVars>>

\* A thread calls get_global_string(id) with an id that it was returned or
\* that another thread handed to it
CallGet(t) ==
    \E pair \in issued :
        /\ callers[t].pc = "idle"
        /\ callers[t].calls < MaxCalls
        /\ callers' = [callers EXCEPT ![t] =
                          [pc |-> "read", arg |-> pair[2], calls |-> @.calls + 1]]
        /\ UNCHANGED <<GLOBAL_STRINGS, GLOBAL_STRINGS_REVMAP, revmap_owner,
                       strings_writer, strings_readers, writer_first, issued,
                       notStringsVars>>

\* GLOBAL_STRINGS.read().unwrap(): get_global_string returns the
\* GlobalStringRef
ReadStrings(t) ==
    /\ callers[t].pc = "read"
    /\ RwLock_read(strings_writer, WritersWaiting, writer_first)
    /\ strings_readers' = strings_readers \cup {t}
    /\ callers' = [callers EXCEPT ![t].pc = "ref"]
    /\ UNCHANGED <<GLOBAL_STRINGS, GLOBAL_STRINGS_REVMAP, revmap_owner,
                   strings_writer, writer_first, issued, notStringsVars>>

\* The thread drops the GlobalStringRef
DropRef(t) ==
    /\ callers[t].pc = "ref"
    /\ strings_readers' = RwLockReadGuard_drop(strings_readers, t)
    /\ callers' = [callers EXCEPT ![t].pc = "idle", ![t].arg = None]
    /\ UNCHANGED <<GLOBAL_STRINGS, GLOBAL_STRINGS_REVMAP, revmap_owner,
                   strings_writer, writer_first, issued, notStringsVars>>

CreateCalls == \E t \in Callers : CallCreate(t)
RevmapLocks == \E t \in Callers : LockRevmap(t)
RevmapGets == \E t \in Callers : RevmapGet(t)
StringsWrites == \E t \in Callers : WriteStrings(t)
StringInserts == \E t \in Callers : InsertString(t)
GetCalls == \E t \in Callers : CallGet(t)
StringsReads == \E t \in Callers : ReadStrings(t)
RefDrops == \E t \in Callers : DropRef(t)

StringsNext ==
    \/ CreateCalls
    \/ RevmapLocks
    \/ RevmapGets
    \/ StringsWrites
    \/ StringInserts
    \/ GetCalls
    \/ StringsReads
    \/ RefDrops

StringsSpec == StringsInit /\ [][StringsNext]_vars

\* C21: whatever the interleaving of the calls, the pairs <<string, id>> that
\* create_global_string has returned give one id to a string and one string
\* to an id, the vector holds no string twice, and every id returned is, in
\* every later state, the index in the vector of the string it was returned
\* for, which is what get_global_string reads.
C21_IdsAreStableAndUnique ==
    /\ \A p \in issued, q \in issued : (p[1] = q[1]) <=> (p[2] = q[2])
    /\ \A i \in 1..Len(GLOBAL_STRINGS), j \in 1..Len(GLOBAL_STRINGS) :
          i # j => GLOBAL_STRINGS[i] # GLOBAL_STRINGS[j]
    /\ \A p \in issued :
          /\ p[2] < Len(GLOBAL_STRINGS)
          /\ GlobalStringRef_deref(GLOBAL_STRINGS, p[2]) = p[1]

\* Every string has been returned an id, a thread waits for the mutex in
\* create_global_string with a string that another thread has stored in the
\* meantime, and a thread holds a GlobalStringRef.
C21_Witness ==
    /\ Cardinality(issued) = NumStrings
    /\ \E t \in Callers :
          /\ callers[t].pc = "lock"
          /\ \E p \in issued : p[1] = callers[t].arg
    /\ \E t \in Callers : callers[t].pc = "ref"

(***************************************************************************)
(* StringsLiveSpec: the string pool with a scheduler that lets every       *)
(* thread that can take its next step take it in the end. A thread is free *)
(* not to call the pool.                                                   *)
(***************************************************************************)
\* The steps of thread t inside a call, and the drop of its GlobalStringRef
CallerStep(t) ==
    \/ LockRevmap(t)
    \/ RevmapGet(t)
    \/ WriteStrings(t)
    \/ InsertString(t)
    \/ ReadStrings(t)
    \/ DropRef(t)

StringsLiveSpec == StringsSpec /\ \A t \in Callers : WF_vars(CallerStep(t))

\* The thread is inside create_global_string or get_global_string
InCall(t) == callers[t].pc \in {"lock", "get", "write", "insert", "read"}

\* C30: a thread that waits for or holds the write lock of the vector holds
\* the mutex of the reverse map, and no thread waits for the mutex while it
\* holds the write lock; every call of create_global_string and of
\* get_global_string returns in the end, with either kind of RwLock, when
\* the threads drop their GlobalStringRef before they call again.
C30_PoolNeverDeadlocks ==
    /\ [](\A t \in Callers :
            /\ callers[t].pc \in {"write", "insert"} => revmap_owner = Some(t)
            /\ strings_writer = Some(t) => revmap_owner = Some(t)
            /\ callers[t].pc \in {"lock", "get"} => strings_writer # Some(t))
    /\ \A t \in Callers : InCall(t) ~> ~InCall(t)

\* A thread waits for the write lock with the mutex in its hands while
\* another thread holds a GlobalStringRef, a third one waits for the mutex,
\* and the RwLock is one that lets readers in while a writer waits.
C30_Witness ==
    /\ ~writer_first
    /\ \E t \in Callers, r \in Callers, m \in Callers :
          /\ callers[t].pc = "write"
          /\ revmap_owner = Some(t)
          /\ callers[r].pc = "ref"
          /\ r \in strings_readers
          /\ callers[m].pc = "lock"

(***************************************************************************)
(* More claims on the router (RouterSpec)                                  *)
(***************************************************************************)
\* The router without the accumulators of its frames
StripAccumulators(self) ==
    [from |-> self.from, markers |-> self.markers,
     queue |-> [i \in 1..Len(self.queue) |->
                   [prev_node |-> self.queue[i].prev_node, node |-> self.queue[i].node]],
     optimize_implies |-> self.optimize_implies]

\* The router with the accumulators accs in the frames of its queue
WithAccumulators(self, accs) ==
    [self EXCEPT !.queue = [i \in 1..Len(self.queue) |->
                               [self.queue[i] EXCEPT !.accumulator = accs[i]]]]

\* C22: a routing_step leaves the same markers and the same (prev_node,
\* node) frames in the queue whatever accumulators the frames of the queue
\* carry and whatever accumulator the callback answers, and the markers
\* that route_all returns with a callback are the markers it returns
\* without one.
C22_AccumulatorDoesNotSteer ==
    /\ [][(router # None /\ router' # router)
            => \A accs \in [1..Len(router[1].queue) -> Accumulators],
                  new_acc \in Accumulators :
                  StripAccumulators(
                      routing_step_acc(graph, WithAccumulators(router[1], accs), new_acc))
                  = StripAccumulators(router'[1])]_vars
    /\ [](returned # None =>
            \E markers \in {route_all(graph,
                               PortToPortRouter_new(graph, router[1].from, None,
                                                    router[1].optimize_implies))} :
                markers = returned)

\* A router with a callback is at work, with markers at a pin that is not
\* the source, and the frames of its queue carry different accumulators.
C22_Witness ==
    /\ router # None
    /\ returned = None
    /\ router[1].callback # None
    /\ \E i \in 1..Len(router[1].queue), j \in 1..Len(router[1].queue) :
          router[1].queue[i].accumulator # router[1].queue[j].accumulator
    /\ \E n \in NodesOf(graph) :
          n # router[1].from /\ router[1].markers[n].constraints # <<>>

\* routing_step, new_requirements of the frame at the head of the queue
NewRequirements(self, frame) ==
    fold_conjunct_term(
        IF frame.prev_node # None
        THEN self.markers[frame.prev_node[1]].constraints
        ELSE add_cube(DNFForm_new, DNFCube_new),
        scan_constraint_requirements(graph, frame.node, frame.prev_node))

\* routing_step, new_activators of the frame at the head of the queue
NewActivators(self, frame) ==
    fold_conjunct_term(
        IF frame.prev_node # None
        THEN self.markers[frame.prev_node[1]].activated
        ELSE add_cube(DNFForm_new, DNFCube_new),
        scan_constraint_activators(graph, frame.node, frame.prev_node))

\* Every assignment of the ports that satisfies f satisfies g
PortsImply(f, g) ==
    \A I \in [NodesOf(graph) -> BOOLEAN] : FormHolds(f, I) => FormHolds(g, I)

\* C24: a routing_step for the frame (P, C) leaves new_requires alone in
\* constraints[C] when new_requires is a subformula of the constraints[C]
\* that it finds, and leaves the disjunction of constraints[C] with
\* new_requires otherwise; "is a subformula of" is what is_subformula_of
\* answers, or else what the formulas mean.
C24_OverwriteIffNewRequiresSubformula ==
    [][(router # None /\ router' # router)
         => LET frame == Head(router[1].queue)
                old == router[1].markers[frame.node].constraints
                new_requires == NewRequirements(router[1], frame)
                written == router'[1].markers[frame.node].constraints
            IN \/ written = IF is_subformula_of(new_requires, old) THEN new_requires
                            ELSE disjunct(old, new_requires)
               \/ written = IF PortsImply(new_requires, old) THEN new_requires
                            ELSE disjunct(old, new_requires)]_vars

\* C25: in a routing_step the cubes that the constraints and the activated
\* of a pin other than the source hold are still held after the step.
C25_MarkersOnlyGrow ==
    [][(router # None /\ router' # None)
         => \A n \in NodesOf(graph) :
               n # router[1].from
               => /\ SeqRange(router[1].markers[n].constraints)
                        \subseteq SeqRange(router'[1].markers[n].constraints)
                  /\ SeqRange(router[1].markers[n].activated)
                        \subseteq SeqRange(router'[1].markers[n].activated)]_vars

\* The drivers of a pin: the sources of its edges
DriversOf(g, node) == SeqRange(edges_to(g, node))

\* C26: a routing_step for a frame (P, C) with P present writes an
\* alternative new_requires whose every cube holds NegVar(Port(D)) for every
\* driver D of C other than P, and holds NegVar(Port(P)) only if the cube of
\* constraints[P] it comes from held it; the cubes of new_requires are in
\* constraints[C] after the step, the last cube of constraints[C] among them.
C26_AlternativeExcludesOtherDrivers ==
    [][(router # None /\ router' # router /\ Head(router[1].queue).prev_node # None)
         => LET frame == Head(router[1].queue)
                P == frame.prev_node[1]
                inherited == router[1].markers[P].constraints
                new_requires == NewRequirements(router[1], frame)
                written == router'[1].markers[frame.node].constraints
            IN /\ Len(new_requires) = Len(inherited)
               /\ \A k \in 1..Len(new_requires) :
                     /\ \A D \in DriversOf(graph, frame.node) \ {P} :
                           NegVar(D) \in SeqRange(new_requires[k])
                     /\ NegVar(P) \in SeqRange(new_requires[k])
                           => NegVar(P) \in SeqRange(inherited[k])
                     /\ new_requires[k] \in SeqRange(written)
               /\ new_requires # <<>> => written[Len(written)] = new_requires[Len(new_requires)]]_vars

\* A routing_step has been made for a frame (P, C) where C has a driver
\* other than P: C holds alternatives of two drivers.
C26_Witness ==
    /\ router # None
    /\ \E C \in NodesOf(graph), P \in NodesOf(graph), D \in NodesOf(graph) :
          /\ P # D
          /\ graph.edges[<<P, C>>]
          /\ graph.edges[<<D, C>>]
          /\ \E k \in 1..Len(router[1].markers[C].constraints) :
                /\ NegVar(D) \in SeqRange(router[1].markers[C].constraints[k])
                /\ NegVar(P) \notin SeqRange(router[1].markers[C].constraints[k])
          /\ \E k \in 1..Len(router[1].markers[C].constraints) :
                /\ NegVar(P) \in SeqRange(router[1].markers[C].constraints[k])
                /\ NegVar(D) \notin SeqRange(router[1].markers[C].constraints[k])

\* C28: with optimize_implies off, in every state of route_all every pin has
\* as many cubes in its constraints as in its activated.
C28_ConstraintsAndActivatedInLockstep ==
    (router # None /\ ~router[1].optimize_implies)
    => \A n \in NodesOf(graph) :
          Len(router[1].markers[n].constraints) = Len(router[1].markers[n].activated)

\* With optimize_implies off, a pin has had its formulas extended by a
\* disjunction and another pin has them empty still.
C28_Witness ==
    /\ router # None
    /\ ~router[1].optimize_implies
    /\ router[1].queue # <<>>
    /\ \E n \in NodesOf(graph) : Len(router[1].markers[n].constraints) >= 3
    /\ \E n \in NodesOf(graph) : Len(router[1].markers[n].constraints) = 0

\* C29: in every state of route_all the constraints and the activated of
\* the source are the one empty cube, and the queue holds no frame for the
\* source but the first one, which has no prev_node: the source is
\* processed once.
C29_SourceIsProcessedOnce ==
    router # None
    => /\ router[1].markers[router[1].from].constraints = <<DNFCube_new>>
       /\ router[1].markers[router[1].from].activated = <<DNFCube_new>>
       /\ \A i \in 1..Len(router[1].queue) :
             router[1].queue[i].node = router[1].from
             => router[1].queue[i].prev_node = None

\* route_all has returned on a graph where a pin that the source drives, and
\* that was given constraints of more than the empty cube, drives the source.
C29_Witness ==
    /\ returned # None
    /\ \E n \in NodesOf(graph) :
          /\ graph.edges[<<router[1].from, n>>]
          /\ graph.edges[<<n, router[1].from>>]
          /\ \E k \in 1..Len(returned[1][n].constraints) :
                returned[1][n].constraints[k] # DNFCube_new


(***************************************************************************)
(* AddCubeOptSpec: add_cube_opt on the formulas that add_cube builds, with *)
(* room for the cube that it appends to a formula of MaxCubes cubes.       *)
(***************************************************************************)
\* The indices of the cubes of self that reduce with c.
ReducingCubes(self, c) ==
    {i \in 1..Len(self) : try_to_reduce_disjunction(self[i], c) # None}

\* form = form.add_cube_opt(c) on a formula of up to MaxCubes cubes
AddCubeOptCall ==
    \E c \in Cubes :
        /\ ~panicked
        /\ Len(form) <= MaxCubes
        /\ form' = add_cube_opt(form, c)
        /\ answer' = None
        /\ UNCHANGED <<other_form, panicked, notFormVars>>

AddCubeOptNext == FormAddCube \/ AddCubeOptCall

AddCubeOptSpec == FormInit /\ [][AddCubeOptNext]_vars

\* C27: add_cube_opt(c) appends c exactly when no cube of the formula
\* reduces with c; when some cube does, the formula gets no more cubes.
C27_AddCubeOptTriesEveryCube ==
    [][\A c \in Cubes :
          (~panicked /\ Len(form) <= MaxCubes /\ form' = add_cube_opt(form, c))
          => /\ ReducingCubes(form, c) = {} => form' = Append(form, c)
             /\ ReducingCubes(form, c) # {} => Len(form') <= Len(form)]_vars


\* C23: optimize keeps the meaning of a formula of normal-form cubes: what
\* the first call returns holds under the very interpretations under which
\* its input holds.
C23_OptimizePreservesMeaning ==
    (/\ opt_first # None
     /\ \A k \in 1..Len(opt_input) : IsNormalCube(opt_input[k]))
    => \A I \in Interpretations :
          FormHolds(opt_first[1], I) <=> FormHolds(opt_input, I)

=============================================================================
